---- MODULE Spec2Model ----
(***************************************************************************)
(* pairpad: a collaborative terminal editor.  Clients hold a WOOT replica  *)
(* (crdt/woot.go), translate key events into operations                   *)
(* (client/engine.go) and exchange them through a relay server            *)
(* (server/main.go).                                                       *)
(*                                                                         *)
(* Conventions of the model                                                *)
(*  - a Go string used as an identifier is the sequence of its bytes, so   *)
(*    that the comparison of woot.go:198 is the byte-wise lexicographic    *)
(*    order of Go;                                                         *)
(*  - Character.Value holds one rune (engine.go:104) and is a TLA+ string; *)
(*    a Go string of text (Content, Editor.Text) is the sequence of its    *)
(*    runes;                                                               *)
(*  - a Go function that returns (doc, err) and may panic is an operator   *)
(*    returning a record [doc, err, panic].                                *)
(***************************************************************************)
EXTENDS Integers, Sequences, FiniteSets, TLC

(***************************************************************************)
(* Strings of bytes                                                        *)
(***************************************************************************)

\* "start", woot.go:31
IdStart == <<115, 116, 97, 114, 116>>

\* "end", woot.go:34
IdEnd == <<101, 110, 100>>

\* "-1", the ID of the Character returned when nothing is found, woot.go:74
IdNone == <<45, 49>>

\* "", the zero value of a Go string
IdEmpty == << >>

\* fmt.Sprint of an int: its decimal digits as bytes ('0' is 48, '-' is 45).
RECURSIVE Sprint(_)
Sprint(n) ==
    IF n < 0 THEN <<45>> \o Sprint(0 - n)
    ELSE IF n < 10 THEN <<48 + n>>
    ELSE Sprint(n \div 10) \o <<48 + (n % 10)>>

\* Go's s < t on strings: byte-wise lexicographic, a proper prefix is smaller.
RECURSIVE StrLess(_, _)
StrLess(s, t) ==
    IF t = << >> THEN FALSE
    ELSE IF s = << >> THEN TRUE
    ELSE IF Head(s) # Head(t) THEN Head(s) < Head(t)
    ELSE StrLess(Tail(s), Tail(t))

\* strconv.Atoi on the text of a SiteID message: the server only ever sends
\* strconv.Itoa of a positive int (server/main.go:117), which Atoi inverts.
RECURSIVE Atoi(_)
Atoi(s) ==
    IF s = << >> THEN 0
    ELSE Atoi(SubSeq(s, 1, Len(s) - 1)) * 10 + (s[Len(s)] - 48)

(***************************************************************************)
(* crdt/woot.go                                                            *)
(***************************************************************************)

ErrNil == "nil"
ErrPositionOutOfBounds == "position out of bounds"
ErrEmptyWCharacter == "empty char ID provided"
ErrBoundsNotPresent == "subsequence bound(s) not present"

\* type Character
Character(id, visible, value, prev, next) ==
    [ID |-> id, Visible |-> visible, Value |-> value,
     IDPrevious |-> prev, IDNext |-> next]

CharacterStart == Character(IdStart, FALSE, "", IdEmpty, IdEnd)

CharacterEnd == Character(IdEnd, FALSE, "", IdStart, IdEmpty)

\* Character{ID: "-1"}
CharacterNone == Character(IdNone, FALSE, "", IdEmpty, IdEmpty)

\* A Document is the sequence doc.Characters.
New == <<CharacterStart, CharacterEnd>>

\* The runes of the visible characters, in document order.
Content(d) ==
    LET vis == SelectSeq(d, LAMBDA c : c.Visible /\ c.Value # "")
    IN  [i \in 1..Len(vis) |-> vis[i].Value]

\* The indices (1-based) of the visible characters, in document order.
RECURSIVE VisibleFrom(_, _)
VisibleFrom(d, i) ==
    IF i > Len(d) THEN << >>
    ELSE IF d[i].Visible THEN <<i>> \o VisibleFrom(d, i + 1)
    ELSE VisibleFrom(d, i + 1)

VisibleIdx(d) == VisibleFrom(d, 1)

\* IthVisible counting the visible characters from 0.
IthVisible_ZeroBased(d, position) ==
    LET vis == VisibleIdx(d)
    IN  IF position >= 0 /\ position < Len(vis) THEN d[vis[position + 1]]
        ELSE CharacterNone

IthVisible(d, position) ==
    LET vis == VisibleIdx(d)
    IN  IF position >= 1 /\ position <= Len(vis) THEN d[vis[position]]
        ELSE CharacterNone

Length(d) == Len(d)

\* 1-based index of the first character with this ID, or -1.
Position(d, charID) ==
    LET hits == {i \in 1..Len(d) : d[i].ID = charID}
    IN  IF hits = {} THEN 0 - 1
        ELSE CHOOSE i \in hits : \A j \in hits : i <= j

\* doc.Characters[i] with the 1-based i of Position: the ID handed in, for
\* an ID of the document; an index of -1 panics.
Left(d, charID) ==
    LET i == Position(d, charID)
    IN  IF i < 0 THEN [id |-> IdEmpty, panic |-> TRUE]
        ELSE IF i = 0 THEN [id |-> d[1].ID, panic |-> FALSE]
        ELSE [id |-> d[i].ID, panic |-> FALSE]

Right(d, charID) ==
    LET i == Position(d, charID)
    IN  IF i >= Len(d) - 1 THEN [id |-> d[i].ID, panic |-> FALSE]
        ELSE [id |-> d[i + 2].ID, panic |-> FALSE]

Contains(d, charID) == Position(d, charID) # 0 - 1

Find(d, id) ==
    IF Position(d, id) = 0 - 1 THEN CharacterNone ELSE d[Position(d, id)]

\* Subseq returning the whole document whatever the bounds.
Subseq_WholeDocument(d, wcharacterStart, wcharacterEnd) ==
    [chars |-> d, err |-> ErrBoundsNotPresent, panic |-> FALSE]

\* doc.Characters[startPosition : endPosition-1]; a slice expression whose
\* low index exceeds its high index panics.
Subseq(d, wcharacterStart, wcharacterEnd) ==
    LET startPosition == Position(d, wcharacterStart.ID)
        endPosition == Position(d, wcharacterEnd.ID)
    IN  IF startPosition = 0 - 1 \/ endPosition = 0 - 1
          THEN [chars |-> d, err |-> ErrBoundsNotPresent, panic |-> FALSE]
        ELSE IF startPosition = endPosition
          THEN [chars |-> << >>, err |-> ErrNil, panic |-> FALSE]
        ELSE IF startPosition > endPosition - 1
          THEN [chars |-> << >>, err |-> ErrNil, panic |-> TRUE]
        ELSE [chars |-> SubSeq(d, startPosition + 1, endPosition - 1),
              err |-> ErrNil, panic |-> FALSE]

\* LocalInsert without the update of the neighbours' IDNext and IDPrevious.
LocalInsert_NoLinks(d, char, position) ==
    IF position <= 0 \/ position >= Length(d)
      THEN [doc |-> d, err |-> ErrPositionOutOfBounds, panic |-> FALSE]
    ELSE IF char.ID = IdEmpty
      THEN [doc |-> d, err |-> ErrEmptyWCharacter, panic |-> FALSE]
    ELSE [doc |-> SubSeq(d, 1, position) \o <<char>>
                     \o SubSeq(d, position + 1, Len(d)),
          err |-> ErrNil, panic |-> FALSE]

\* position is a 0-based index into doc.Characters.
LocalInsert(d, char, position) ==
    IF position <= 0 \/ position >= Length(d)
      THEN [doc |-> d, err |-> ErrPositionOutOfBounds, panic |-> FALSE]
    ELSE IF char.ID = IdEmpty
      THEN [doc |-> d, err |-> ErrEmptyWCharacter, panic |-> FALSE]
    ELSE LET ins == SubSeq(d, 1, position) \o <<char>>
                       \o SubSeq(d, position + 1, Len(d))
             upd == [ins EXCEPT ![position].IDNext = char.ID,
                                ![position + 2].IDPrevious = char.ID]
         IN  [doc |-> upd, err |-> ErrNil, panic |-> FALSE]

\* The index reached by the loop of woot.go:197-200 (0-based into sub).
RECURSIVE SkipSmaller(_, _, _)
SkipSmaller(sub, charID, i) ==
    IF i < Len(sub) - 1 /\ StrLess(sub[i + 1].ID, charID)
      THEN SkipSmaller(sub, charID, i + 1)
    ELSE i

\* What LocalInsert returned to the call of IntegrateInsert at this depth.
Returned(res, depth) ==
    [doc |-> res.doc, err |-> res.err, panic |-> res.panic,
     depth |-> depth, endless |-> FALSE]

\* IntegrateInsert with the depth of the recursion; a recursion that never
\* ends exhausts the goroutine stack, which is fatal like a panic.
RECURSIVE IntegrateInsertAt(_, _, _, _, _)
IntegrateInsertAt(d, char, charPrev, charNext, depth) ==
    LET s == Subseq(d, charPrev, charNext)
        subsequence == s.chars
        position == Position(d, charNext.ID) - 1
    IN  IF s.panic
          THEN [doc |-> d, err |-> ErrNil, panic |-> TRUE,
                depth |-> depth, endless |-> FALSE]
        ELSE IF depth > Len(d) * Len(d)
          THEN [doc |-> d, err |-> ErrNil, panic |-> TRUE,
                depth |-> depth, endless |-> TRUE]
        ELSE IF Len(subsequence) = 0
          THEN Returned(LocalInsert(d, char, position), depth)
        ELSE IF Len(subsequence) = 1
          THEN Returned(LocalInsert(d, char, position - 1), depth)
        ELSE LET i == SkipSmaller(subsequence, char.ID, 1)
             IN  IntegrateInsertAt(d, char, subsequence[i], subsequence[i + 1],
                                   depth + 1)

IntegrateInsert(d, char, charPrev, charNext) ==
    IntegrateInsertAt(d, char, charPrev, charNext, 0)

\* What GenerateInsert returns: the outcome r of IntegrateInsert and the clock
\* after LocalClock++.
Generated(r, clock) ==
    [doc |-> r.doc, err |-> r.err, panic |-> r.panic, clock |-> clock]

\* GenerateInsert taking position as the number of visible characters
\* before the new one.
GenerateInsert_ZeroBased(d, site, clock, position, value) ==
    LET iv1 == IthVisible(d, position)
        iv2 == IthVisible(d, position + 1)
        charPrev == IF iv1.ID = IdNone THEN Find(d, IdStart) ELSE iv1
        charNext == IF iv2.ID = IdNone THEN Find(d, IdEnd) ELSE iv2
        char == Character(Sprint(site) \o Sprint(clock + 1), TRUE, value,
                          charPrev.ID, charNext.ID)
    IN  Generated(IntegrateInsert(d, char, charPrev, charNext), clock + 1)

\* GenerateInsert reads the globals SiteID and LocalClock; the caller stores
\* the returned clock (LocalClock++ happens before anything can fail).
GenerateInsert(d, site, clock, position, value) ==
    LET iv1 == IthVisible(d, position - 1)
        iv2 == IthVisible(d, position)
        charPrev == IF iv1.ID = IdNone THEN Find(d, IdStart) ELSE iv1
        charNext == IF iv2.ID = IdNone THEN Find(d, IdEnd) ELSE iv2
        char == Character(Sprint(site) \o Sprint(clock + 1), TRUE, value,
                          charPrev.ID, charNext.ID)
    IN  Generated(IntegrateInsert(d, char, charPrev, charNext), clock + 1)

\* IntegrateDelete flipping the flag instead of clearing it.
IntegrateDelete_Toggles(d, char) ==
    LET position == Position(d, char.ID)
    IN  IF position = 0 - 1 THEN d
        ELSE [d EXCEPT ![position].Visible = ~@]

IntegrateDelete(d, char) ==
    LET position == Position(d, char.ID)
    IN  IF position = 0 - 1 THEN d
        ELSE [d EXCEPT ![position].Visible = FALSE]

GenerateDelete(d, position) == IntegrateDelete(d, IthVisible(d, position))

\* What Insert leaves and returns for the outcome g of GenerateInsert: the
\* replica, the clock, err and the content of the replica.
Inserted(g) ==
    [doc |-> g.doc, err |-> g.err, panic |-> g.panic, clock |-> g.clock,
     text |-> Content(g.doc)]

\* Insert returns (Content, err); text is that content.
Insert(d, site, clock, position, value) ==
    Inserted(GenerateInsert(d, site, clock, position, value))

\* Delete returns the content of the document after the deletion.
Delete(d, position) ==
    LET nd == GenerateDelete(d, position)
    IN  [doc |-> nd, text |-> Content(nd)]

(***************************************************************************)
(* Bounds                                                                  *)
(***************************************************************************)

\* Client processes (slots a client process can run in).
NClients == 3

\* Connections the server accepts in Spec.
MaxSites == 2

\* Editing keystrokes (a rune or Backspace) over all clients in SpecEdit.
MaxTyped == 3

\* Editing keystrokes over all clients in Spec.
MaxTypedJoin == 1

\* Editing key events (a rune, Backspace or Tab) of the clients of SpecKeys.
MaxKeysTyped == 1

\* Editing keystrokes of the clients of SpecFile.
MaxFileTyped == 2

\* Direct calls of LocalInsert in SpecCrdt that insert, and the characters
\* other than the sentinels of the longest replica it is called on.
MaxDirect == 1
MaxDirectBase == 1

\* The longest text of the editor in SpecEditor, and the size of its window
MaxText == 4
EdWidth == 2
EdHeight == 3

\* Frames written in SpecSend
MaxSendFrames == 3

\* Connections the server accepts in SpecSnap
MaxSnapConns == 3

\* Connections the server has accepted when the last one of SpecSites is
\* made.
MaxSitesAccepted == 11

\* Runes the first client of SpecSites has typed when the run starts.
MaxSitesTyped == 11

\* Editing keystrokes (a rune or Backspace) of the clients in SpecSites.
MaxSitesEdits == 2

\* Client processes that end in SpecLeave.
MaxLeaveGone == 2

\* Connections the server accepts in SpecJoin after the first two.
MaxJoinSites == 1

\* Runes typed in SpecJoin.
MaxJoinTyped == 1

\* Connections the server accepts in SpecAccept.
MaxAcceptSites == 4

\* Characters a replica of SpecCrdt holds besides the sentinels.
MaxChars == 3

\* Characters, besides the sentinels, of the longest replica of SpecCrdt on
\* which Delete and IntegrateDelete are called.
MaxDeleteChars == 2

\* Characters, besides the sentinels, of a replica of SpecCrdt on which two
\* integrations are compared in both orders when one is an insertion, and
\* when both are deletions.
MaxBase == 1
MaxDeleteBase == 2

\* Characters with one ID a replica of SpecCrdt holds when another one with
\* that ID is integrated, and the characters besides the sentinels it holds
\* then.
MaxCopies == 1

\* Characters besides the sentinels of a replica of SpecCrdt on which Left
\* and Right are called.
MaxLookupBase == 1
MaxCopyBase == 1

\* Characters besides the sentinels a replica of SpecCrdt grows to once two
\* of its characters share an ID.
MaxDupChars == 2

Clients == 1..NClients

\* The runes a key event can carry.
Runes == {"a", "b"}

(***************************************************************************)
(* State                                                                   *)
(***************************************************************************)

VARIABLES
    proc,         \* client process: "off", "running", "exited", "crashed"
    doc,          \* client/main.go:43  var doc crdt.Document
    SiteID,       \* crdt/woot.go:25    crdt.SiteID of each client process
    LocalClock,   \* crdt/woot.go:28    crdt.LocalClock of each client process
    Cursor,       \* editor.go:24       e.Cursor
    toServer,     \* frames written by a client, not yet read by the server
    toClient,     \* frames written by the server, not yet read by the client
    siteID,       \* server/main.go:49  the site ID counter
    list,         \* server/main.go:20  clients.list: slot -> uuid, SiteID, Username
    messageChan,  \* server/main.go:58
    syncChan,     \* server/main.go:61
    srvPanic,     \* a goroutine of the server panicked: the process is gone
    reader,       \* server/main.go:134 the read loop of a slot's connection runs
    stuck,        \* goroutines of the server that block for ever
    conn,         \* server/main.go:112-121 the handlers inside handleConn
    hist,         \* what the server wrote last, what each client was told
    typed,        \* number of editing keystrokes so far
    early,        \* an edit was typed before every client had its snapshot
    last,         \* the last call of the CRDT interface and its result
    pair,         \* two integrations applied to one replica in both orders
    e             \* editor/editor.go:11-44 the Editor of one client

vars == <<proc, doc, SiteID, LocalClock, Cursor, toServer, toClient, siteID,
          list, messageChan, syncChan, srvPanic, reader, stuck, conn, hist,
          typed, early, last, pair, e>>

clientVars == <<proc, doc, SiteID, LocalClock, Cursor>>
serverVars == <<siteID, list, messageChan, syncChan, srvPanic, reader, stuck,
                conn>>

(***************************************************************************)
(* Messages (commons/message.go, client/main.go:27)                        *)
(***************************************************************************)

\* The zero Operation.
NoOperation == [Type |-> "", Position |-> 0, Value |-> ""]

\* The zero crdt.Document (Characters is nil).
NilDocument == << >>

\* uuid.Nil
NilUUID == 0

Message(type, text, id, username, operation, document) ==
    [Type |-> type, Text |-> text, ID |-> id, Username |-> username,
     Operation |-> operation, Document |-> document]

\* The name a client process announces; one letter per slot ('a' is 97).
NameOf(c) == <<96 + c>>

\* "has joined the session.", client/main.go:102
JoinText == <<104, 97, 115, 32, 106, 111, 105, 110, 101, 100, 32, 116, 104,
              101, 32, 115, 101, 115, 115, 105, 111, 110, 46>>

NoLast == [op |-> "none", who |-> 0, before |-> << >>, after |-> << >>,
           pos |-> 0,
           value |-> "", char |-> CharacterNone, prev |-> CharacterNone,
           next |-> CharacterNone, err |-> ErrNil, panic |-> FALSE,
           text |-> << >>, depth |-> 0, endless |-> FALSE]

\* editor.go:50-54 NewEditor: the zero value but for the configuration; the
\* specifications of the session leave the view of the editor alone.
NoEditor == [Text |-> << >>, Cursor |-> 0, Width |-> 0, Height |-> 0,
             ColOff |-> 0, RowOff |-> 0, ScrollEnabled |-> FALSE]

NoPair == [kind |-> "none", base |-> << >>, ab |-> << >>, ba |-> << >>,
           a |-> CharacterNone, b |-> CharacterNone, x |-> IdEmpty]

\* table: the goroutine of Clients.handle is blocked for ever in c.mu.Lock();
\* leak: the read lock of the table that clients.close keeps when the client
\* is not in the list.
NoStuck == [table |-> FALSE, leak |-> FALSE]

\* The handlers running handleConn between mu.Lock() and mu.Unlock(): where
\* each one is, who holds mu (0 for nobody), the site ID each one put in its
\* client, and the site IDs in the order they were read.
\* For the goroutines that write to the clients (SpecSend): where each one is
\* inside client.send and to which client, who holds the writeMu of each
\* client, and the halves of the frames put on each connection, in order.
Senders == {"conn", "msg", "sync"}

\* The goroutines of the server that serve the session: the handleConn of
\* the connection in slot c is c; then handleMsg and handleSync
\* (main.go:78, 81).
MsgG == NClients + 1
SyncG == NClients + 2
Serving == Clients \cup {MsgG, SyncG}

ZeroMessage ==
    Message("", IdEmpty, NilUUID, IdEmpty, NoOperation, NilDocument)

\* One run of a broadcast function: the uuids in the table when it took its
\* snapshot, the uuids of the clients it was meant for, of those written to
\* and of those whose write failed (in order).
NoRun == [table |-> {}, targets |-> {}, written |-> {}, failed |-> << >>]

\* A goroutine between two jobs: a handleConn that does not run, handleMsg
\* and handleSync at their receive.  pc: where it is; job: the call it is
\* in; msg: the message in hand; id: the uuid of the connection of a
\* handleConn; snap: the clients still to come in the range over getAll();
\* cur: the client asked for or to be deleted; nested: sendUsernames was
\* called by clients.delete; users: the clients of the getAll() of
\* sendUsernames and read: the user names its loop has read already, where
\* they have changed since; run: the run of the broadcast function so far;
\* lag: while the goroutine is in getAll, by how many clients the list has
\* outgrown the smallest it has been since the goroutine came there.
Parked(g) ==
    [pc |-> IF g \in Clients THEN "off" ELSE "recv", job |-> "none",
     msg |-> ZeroMessage, id |-> NilUUID, snap |-> {}, cur |-> NilUUID,
     nested |-> FALSE, users |-> {}, read |-> << >>, run |-> NoRun,
     lag |-> 0]

\* The goroutine of Clients.handle inside a read-all request whose response
\* channel is too small for the list: for, the goroutine that made the
\* request; owe, the clients it has to receive before the last client is in
\* the channel and the goroutine of the table is back at its select; own,
\* the client of the requester itself is among those still to be received
\* by a function that skips it.
NoMon == [for |-> 0, owe |-> 0, own |-> FALSE]

\* The goroutines; heap: the client struct of every uuid minted (the table
\* and the snapshots hold pointers to them); closed: the connections the
\* server has closed; sendq: the goroutines waiting in a send to messageChan
\* and to syncChan, in order (the channels have no buffer).
NoGo == [g |-> [x \in Serving |-> Parked(x)], heap |-> << >>, closed |-> {},
         mon |-> NoMon,
         sendq |-> [msg |-> << >>, sync |-> << >>]]

NoConn == [go |-> NoGo, pc |-> [c \in Clients |-> "idle"], holder |-> 0,
           SiteID |-> [c \in Clients |-> IdEmpty], log |-> << >>,
           send |-> [g \in Senders |-> [pc |-> "idle", to |-> 0]],
           writeMu |-> [c \in Clients |-> "nobody"],
           wire |-> [c \in Clients |-> << >>]]

\* One run of a broadcast function: the frame, the uuids in the table when
\* it took its snapshot, the clients it was meant for and their uuids, the
\* ones written to, the ones whose write failed (in order), whether the loop
\* was left blocked before its end, and whether the client asked for was nil.
NoWrote == [msg |-> ZeroMessage,
            table |-> {}, targets |-> {}, ids |-> {}, written |-> {},
            failed |-> << >>, blocked |-> FALSE, nobody |-> FALSE]

\* The last snapshot a client installed: who, the uuid the frame carried and
\* the uuid of the client, the document installed, and the document that was
\* sent in answer to the request made for that client.
NoSynced == [who |-> 0, id |-> NilUUID, to |-> NilUUID,
             installed |-> NilDocument, known |-> FALSE,
             answered |-> NilDocument]

\* wrote: the last run of a broadcast function; users: the last list of user
\* names each client was sent; answered: the snapshots sent by clients and
\* not yet installed or lost, each with the uuid it is meant for; sent: the
\* operations typed; synced: the last snapshot installed; key: the last
\* editing key event.
\* The last editing key event: the key, the CRDT calls it made and the
\* operation messages it wrote.
NoKey == [kind |-> "none", calls |-> 0, msgs |-> 0]

\* hist.shown is the text each client gave to its last e.SetText
\* (editor.go:62-64), which is e.Text from then on.  hist.order[c] is the
\* operations the clients of slot c sent, in order, each with the uuid of
\* the connection; hist.got[d][c] is the operations of slot c that the
\* client in slot d handled, in order, each with the uuid it carried.
\* hist.relayed[c] is the number of operations of slot c that handleMsg has
\* relayed; hist.boot[c] is the bootstrap of the client in slot c.
\* The last call of the editor: the method, its arguments, the editor before
\* the call and whether the call panicked (an index out of range).
NoMove == [op |-> "none", x |-> 0, y |-> 0, before |-> NoEditor,
           panic |-> FALSE]

\* The bootstrap of a client: base[c], how many operations of slot c
\* handleMsg had relayed when the client was added to the table; by, the
\* client that answered its docReq; covers[c], how many operations of slot c
\* that client had sent (its own) or handled (base included) when it
\* answered; done, whether the docSync is installed; had[c], how many
\* operations of slot c (base included) the client had handled by then.
NoBoot == [base |-> [c \in Clients |-> 0], by |-> 0,
           covers |-> [c \in Clients |-> 0], done |-> FALSE,
           had |-> [c \in Clients |-> 0]]

NoHist == [wrote |-> NoWrote,
           users |-> [c \in Clients |-> << >>],
           answered |-> {},
           sent |-> {},
           synced |-> NoSynced,
           key |-> NoKey,
           move |-> NoMove,
           shown |-> [c \in Clients |-> << >>],
           order |-> [c \in Clients |-> << >>],
           got |-> [d \in Clients |-> [c \in Clients |-> << >>]],
           relayed |-> [c \in Clients |-> 0],
           boot |-> [c \in Clients |-> NoBoot],
           direct |-> 0]

\* The uuid of the connection of the client in slot c.
UuidOf(c) == IF c \in DOMAIN list THEN list[c].id ELSE NilUUID

\* The slot whose client sent operations under the uuid id; d if none did.
SenderOf(id, d) ==
    LET S == {c \in Clients :
                 \E i \in 1..Len(hist.order[c]) : hist.order[c][i][1] = id}
    IN  IF S = {} THEN d ELSE CHOOSE c \in S : TRUE

\* How many operations of each slot the client in slot d has handled,
\* counting those relayed before it was added to the table.
Handled_Ops(d) ==
    [c \in Clients |-> hist.boot[d].base[c] + Len(hist.got[d][c])]

\* hist.relayed once handleMsg has relayed msg.
Relayed(msg) ==
    [c \in Clients |->
        IF /\ msg.Type = "operation"
           /\ \E i \in 1..Len(hist.order[c]) : hist.order[c][i][1] = msg.ID
          THEN hist.relayed[c] + 1
        ELSE hist.relayed[c]]

\* The snapshots in flight other than those meant for uuid id.
NotFor(id) == {a \in hist.answered : a.id # id}

(***************************************************************************)
(* client/editor/editor.go                                                 *)
(***************************************************************************)

\* e.Text of the client in slot c: the text given to the last SetText
\* (engine.go:49, 121, 133, 202); it is empty until the first one.
Text(c) == hist.shown[c]

\* MoveCursor(x, 0): the horizontal move, reset to the bounds of the text.
MoveCursor(cursor, textLen, x) ==
    IF textLen = 0 /\ cursor = 0 THEN cursor
    ELSE LET newCursor == cursor + x
         IN  IF newCursor > textLen THEN textLen
             ELSE IF newCursor < 0 THEN 0
             ELSE newCursor

\* e.Text[i], with the index of the source (from 0).
RuneAt(text, i) == text[i + 1]

NewLine == "\n"

\* The zero rune: what a slice holds between its length and its capacity.
NulRune == "\\0"

\* runewidth.RuneWidth(r) for the runes of EditorRunes (printable ASCII) and
\* for the zero rune.
RuneWidth(r) == IF r = NulRune THEN 0 ELSE 1

\* editor.go:369-390 calcCursorXY(index): the cell of the index, from (1, 1).
RECURSIVE CellAfter(_, _, _, _, _)
CellAfter(text, index, i, x, y) ==
    IF i >= index THEN [x |-> x, y |-> y]
    ELSE IF RuneAt(text, i) = NewLine
           THEN CellAfter(text, index, i + 1, 1, y + 1)
         ELSE CellAfter(text, index, i + 1, x + RuneWidth(RuneAt(text, i)), y)

calcCursorXY(text, index) ==
    IF index < 0 THEN [x |-> 1, y |-> 1]
    ELSE CellAfter(text, IF index > Len(text) THEN Len(text) ELSE index,
                   0, 1, 1)

\* editor.go:283-285, 329-331: for start > 0 && e.Text[start] != '\n'
RECURSIVE FindStart(_, _)
FindStart(text, start) ==
    IF start > 0 /\ RuneAt(text, start) # NewLine
      THEN FindStart(text, start - 1)
    ELSE start

\* editor.go:293-295, 339-341, 355-357: for end < len && e.Text[end] != '\n'
RECURSIVE FindEnd(_, _)
FindEnd(text, end) ==
    IF end < Len(text) /\ RuneAt(text, end) # NewLine
      THEN FindEnd(text, end + 1)
    ELSE end

\* editor.go:298: the previous line taken to start right before this one
FindPrevStart_Stay(text, prevStart) == prevStart

\* editor.go:299-301: for prevStart >= 0 && e.Text[prevStart] != '\n'
RECURSIVE FindPrevStart(_, _)
FindPrevStart(text, prevStart) ==
    IF prevStart >= 0 /\ RuneAt(text, prevStart) # NewLine
      THEN FindPrevStart(text, prevStart - 1)
    ELSE prevStart

\* e.Text[e.Cursor] at editor.go:271 and 317 is an index out of range, a
\* run-time panic, for a cursor outside the text (pos == len is tested first).
CursorOutside(text, cursor) == cursor < 0 \/ cursor > Len(text)

\* editor.go:266-310 calcCursorUp
calcCursorUp(text, cursor) ==
    IF CursorOutside(text, cursor) THEN [cursor |-> cursor, panic |-> TRUE]
    ELSE
    LET moved   == cursor = Len(text) \/ RuneAt(text, cursor) = NewLine
        offset0 == IF moved THEN 1 ELSE 0
        pos1    == IF moved THEN cursor - 1 ELSE cursor
        pos     == IF pos1 < 0 THEN 0 ELSE pos1
        start   == FindStart(text, pos)
        prevStart == FindPrevStart(text, start - 1)
        offset  == offset0 + (pos - start)
    IN  IF start = 0 THEN [cursor |-> 0, panic |-> FALSE]
        ELSE IF offset <= start - prevStart
               THEN [cursor |-> prevStart + offset, panic |-> FALSE]
             ELSE [cursor |-> start, panic |-> FALSE]

\* editor.go:312-366 calcCursorDown; e.Text[start] at line 334 is an index
\* out of range for an empty text.
calcCursorDown(text, cursor) ==
    IF CursorOutside(text, cursor) \/ Len(text) = 0
      THEN [cursor |-> cursor, panic |-> TRUE]
    ELSE
    LET moved   == cursor = Len(text) \/ RuneAt(text, cursor) = NewLine
        offset0 == IF moved THEN 1 ELSE 0
        pos1    == IF moved THEN cursor - 1 ELSE cursor
        pos     == IF pos1 < 0 THEN 0 ELSE pos1
        start   == FindStart(text, pos)
        offset1 == IF start = 0 /\ RuneAt(text, start) # NewLine
                     THEN offset0 + 1 ELSE offset0
        end0    == FindEnd(text, pos)
        end     == IF RuneAt(text, pos) = NewLine /\ cursor # 0
                     THEN end0 + 1 ELSE end0
        nextEnd == FindEnd(text, end + 1)
        offset  == offset1 + (pos - start)
    IN  IF end = Len(text) THEN [cursor |-> Len(text), panic |-> FALSE]
        ELSE IF offset < nextEnd - end
               THEN [cursor |-> end + offset, panic |-> FALSE]
             ELSE [cursor |-> nextEnd, panic |-> FALSE]

\* editor.go:248-255 "Reset to bounds", without the lower bound
ResetToBounds_NoLower(newCursor, textLen) ==
    IF newCursor > textLen THEN textLen ELSE newCursor

\* editor.go:248-255 "Reset to bounds"
ResetToBounds(newCursor, textLen) ==
    IF newCursor > textLen THEN textLen
    ELSE IF newCursor < 0 THEN 0
    ELSE newCursor

\* editor.go:225-234: the row offset after the window followed the cell
ScrollRows(rowOff, height, cy) ==
    LET rowStart == rowOff
        rowEnd   == rowOff + height - 1
        up       == IF cy <= rowStart THEN rowOff + (cy - rowStart - 1)
                    ELSE rowOff
    IN  IF cy > rowEnd THEN up + (cy - rowEnd) ELSE up

\* editor.go:236-245: the column offset after the window followed the cell
ScrollCols(colOff, width, cx) ==
    LET colStart == colOff
        colEnd   == colOff + width
        left     == IF cx <= colStart THEN colOff + (cx - (colStart + 1))
                    ELSE colOff
    IN  IF cx > colEnd THEN left + (cx - colEnd) ELSE left

\* editor.go:205-258 MoveCursor(x, y) on the editor ed: the editor it leaves
\* and whether it panicked.  With y > 0 and y < 0 both false the cursor moves
\* by x; the window follows the cell of the cursor before it is reset to the
\* bounds of the text.
EditorMoveCursor(ed, x, y) ==
    IF Len(ed.Text) = 0 /\ ed.Cursor = 0 THEN [ed |-> ed, panic |-> FALSE]
    ELSE
    LET down == calcCursorDown(ed.Text, ed.Cursor)
        up   == calcCursorUp(ed.Text, ed.Cursor)
        newCursor == IF y < 0 THEN up.cursor
                     ELSE IF y > 0 THEN down.cursor
                     ELSE ed.Cursor + x
        cell == calcCursorXY(ed.Text, newCursor)
    IN  IF (y > 0 /\ down.panic) \/ (y < 0 /\ up.panic)
          THEN [ed |-> ed, panic |-> TRUE]
        ELSE [ed |-> [ed EXCEPT
                        !.RowOff = IF ed.ScrollEnabled
                                     THEN ScrollRows(ed.RowOff, ed.Height, cell.y)
                                   ELSE @,
                        !.ColOff = IF ed.ScrollEnabled
                                     THEN ScrollCols(ed.ColOff, ed.Width, cell.x)
                                   ELSE @,
                        !.Cursor = ResetToBounds(newCursor, Len(ed.Text))],
              panic |-> FALSE]

\* unnamed/part_009:287-335 MoveCursor(x, y) of the editor that has AddRune:
\* the window follows the cell of the cursor by one step at a time, down
\* before up and right before left, each test on the offset the one before
\* it left; there is no switch for scrolling.
StepRows(rowOff, height, cy) ==
    LET down == IF cy > height + rowOff - 1 THEN rowOff + 1 ELSE rowOff
    IN  IF cy <= down THEN down - 1 ELSE down

StepCols(colOff, width, cx) ==
    LET right == IF cx > colOff + width THEN colOff + 1 ELSE colOff
    IN  IF cx <= right THEN right - 1 ELSE right

AddRuneMoveCursor(ed, x, y) ==
    IF Len(ed.Text) = 0 /\ ed.Cursor = 0 THEN [ed |-> ed, panic |-> FALSE]
    ELSE
    LET down == calcCursorDown(ed.Text, ed.Cursor)
        up   == calcCursorUp(ed.Text, ed.Cursor)
        newCursor == IF y < 0 THEN up.cursor
                     ELSE IF y > 0 THEN down.cursor
                     ELSE ed.Cursor + x
        cell == calcCursorXY(ed.Text, newCursor)
    IN  IF (y > 0 /\ down.panic) \/ (y < 0 /\ up.panic)
          THEN [ed |-> ed, panic |-> TRUE]
        ELSE [ed |-> [ed EXCEPT
                        !.RowOff = StepRows(ed.RowOff, ed.Height, cell.y),
                        !.ColOff = StepCols(ed.ColOff, ed.Width, cell.x),
                        !.Cursor = ResetToBounds(newCursor, Len(ed.Text))],
              panic |-> FALSE]

(***************************************************************************)
(* Transport                                                               *)
(***************************************************************************)

\* The frames a process leaves unread when it ends are lost with its socket.
Unread(c) == [toClient EXCEPT ![c] = << >>]

\* A connection that delivers the newest frame first.
SendTo_Front(queues, targets, msg) ==
    [d \in Clients |->
        IF d \in targets /\ proc[d] = "running"
          THEN <<msg>> \o queues[d]
        ELSE queues[d]]

\* The frames of msg written to the connections of the slots in targets.
\* A frame written to a connection whose peer is gone is read by nobody.
SendTo(queues, targets, msg) ==
    [d \in Clients |->
        IF d \in targets /\ proc[d] = "running"
          THEN Append(queues[d], msg)
        ELSE queues[d]]

\* The slots of clients.list whose uuid is id (at most one).
SlotsOf(id) == {d \in DOMAIN list : list[d].id = id}

\* sendUsernames: the names of the clients, each followed by ",", in the
\* order in which the range over the clients visits them; heap gives the
\* client of each uuid.
RECURSIVE JoinNames(_, _)
JoinNames(heap, order) ==
    IF order = << >> THEN << >>
    ELSE heap[Head(order)].Username \o <<44>> \o JoinNames(heap, Tail(order))

UsersMessage(heap, order) ==
    Message("users", JoinNames(heap, order), NilUUID, IdEmpty, NoOperation,
            NilDocument)

NoFrame(type) ==
    /\ \A c \in Clients :
          /\ \A i \in 1..Len(toServer[c]) : toServer[c][i].Type # type
          /\ \A i \in 1..Len(toClient[c]) : toClient[c][i].Type # type
          /\ conn.go.g[c].pc = "chanSend" => conn.go.g[c].msg.Type # type
    /\ \A i \in 1..Len(messageChan) : messageChan[i].Type # type
    /\ \A i \in 1..Len(syncChan) : syncChan[i].Type # type

\* Every client process that runs is in the server's table and has been
\* handed its site ID and its snapshot.
BootDone ==
    /\ \A c \in Clients : proc[c] = "running" => c \in DOMAIN list
    /\ NoFrame("SiteID") /\ NoFrame("docReq") /\ NoFrame("docSync")

(***************************************************************************)
(* client/engine.go: key events                                            *)
(***************************************************************************)

Crash(c) ==
    /\ proc' = [proc EXCEPT ![c] = "crashed"]
    /\ toClient' = Unread(c)
    /\ UNCHANGED <<doc, SiteID, LocalClock, Cursor, toServer, serverVars,
                   hist, early, last, pair, e>>

\* performOperation(OperationInsert): a rune key, Space or Enter.
\* AddRune slices e.Text[:e.Cursor]: with the cursor beyond the text that
\* is within the slice's capacity or panics, as the allocator decided.
KeyRune(c, r) ==
    /\ proc[c] = "running"
    /\ typed' = typed + 1
    /\ \/ /\ Cursor[c] > Len(Text(c))
          /\ Crash(c)
       \/ LET cur == Cursor[c] + 1
              res == Insert(doc[c], SiteID[c], LocalClock[c], cur, r)
              msg == Message("operation", IdEmpty, NilUUID, IdEmpty,
                             [Type |-> "insert", Position |-> cur, Value |-> r],
                             NilDocument)
          IN  IF res.panic THEN Crash(c)
              ELSE /\ doc' = [doc EXCEPT ![c] = res.doc]
                   /\ LocalClock' = [LocalClock EXCEPT ![c] = res.clock]
                   /\ Cursor' = [Cursor EXCEPT ![c] = cur]
                   /\ toServer' = [toServer EXCEPT ![c] = Append(@, msg)]
                   /\ early' = (early \/ ~BootDone)
                   /\ last' = [NoLast EXCEPT !.op = "Insert", !.who = c,
                                 !.before = doc[c], !.after = res.doc,
                                 !.pos = cur, !.value = r,
                                 !.err = res.err, !.text = res.text]
                   /\ hist' = [hist EXCEPT
                          !.sent = @ \cup {msg.Operation},
                          !.key = [kind |-> "rune", calls |-> 1, msgs |-> 1],
                          !.shown[c] = res.text,
                          !.order[c] = Append(@, <<UuidOf(c), msg.Operation>>)]
                   /\ UNCHANGED <<proc, SiteID, toClient, serverVars, pair, e>>

\* performOperation(OperationDelete): Backspace or Delete.
KeyBackspace(c) ==
    /\ proc[c] = "running"
    /\ typed' = typed + 1
    /\ LET cur == IF Cursor[c] - 1 < 0 THEN 0 ELSE Cursor[c]
           res == Delete(doc[c], cur)
           msg == Message("operation", IdEmpty, NilUUID, IdEmpty,
                          [Type |-> "delete", Position |-> cur, Value |-> ""],
                          NilDocument)
       IN  /\ doc' = [doc EXCEPT ![c] = res.doc]
           /\ Cursor' = [Cursor EXCEPT ![c] = MoveCursor(cur, Len(res.text), 0 - 1)]
           /\ toServer' = [toServer EXCEPT ![c] = Append(@, msg)]
           /\ early' = (early \/ ~BootDone)
           /\ last' = [NoLast EXCEPT !.op = "Delete", !.who = c,
                         !.before = doc[c], !.after = res.doc,
                         !.pos = cur, !.text = res.text]
           /\ hist' = [hist EXCEPT
                  !.sent = @ \cup {msg.Operation},
                  !.key = [kind |-> "delete", calls |-> 1, msgs |-> 1],
                  !.shown[c] = res.text,
                  !.order[c] = Append(@, <<UuidOf(c), msg.Operation>>)]
    /\ UNCHANGED <<proc, SiteID, LocalClock, toClient, serverVars, pair, e>>

\* The runes Tab inserts, one performOperation each, if it inserted five.
TabRunes_Five == <<" ", " ", " ", " ", " ">>

\* The runes Tab inserts, one performOperation each (for i := 0; i < 4).
TabRunes == <<" ", " ", " ", " ">>

\* performOperation(OperationInsert) for rune r in the client state st: the
\* states it can leave, as in KeyRune.
PerformInsert(st, site, r) ==
    (IF st.cursor > Len(Content(st.doc))
       THEN {[st EXCEPT !.crashed = TRUE]}
     ELSE {})
    \cup
    LET cur == st.cursor + 1
        res == Insert(st.doc, site, st.clock, cur, r)
        msg == Message("operation", IdEmpty, NilUUID, IdEmpty,
                       [Type |-> "insert", Position |-> cur, Value |-> r],
                       NilDocument)
    IN  IF res.panic
          THEN {[st EXCEPT !.crashed = TRUE, !.calls = @ + 1]}
        ELSE {[doc |-> res.doc, clock |-> res.clock, cursor |-> cur,
               out |-> Append(st.out, msg), calls |-> st.calls + 1,
               crashed |-> FALSE, before |-> st.doc, err |-> res.err,
               text |-> res.text]}

\* performOperation(OperationInsert) for each rune of runes in turn, from any
\* of the client states of S; a panic ends the process.
RECURSIVE PerformInserts(_, _, _)
PerformInserts(S, site, runes) ==
    IF runes = << >> THEN S
    ELSE PerformInserts(
             UNION {IF st.crashed THEN {st}
                    ELSE PerformInsert(st, site, Head(runes)) : st \in S},
             site, Tail(runes))

\* Tab: four spaces, each inserted and sent by its own performOperation.
KeyTab(c) ==
    /\ proc[c] = "running"
    /\ typed' = typed + 1
    /\ \E st \in PerformInserts(
                    {[doc |-> doc[c], clock |-> LocalClock[c],
                      cursor |-> Cursor[c], out |-> << >>, calls |-> 0,
                      crashed |-> FALSE, before |-> doc[c], err |-> ErrNil,
                      text |-> hist.shown[c]]},
                    SiteID[c], TabRunes) :
          /\ proc' = [proc EXCEPT ![c] = IF st.crashed THEN "crashed" ELSE @]
          /\ toClient' = IF st.crashed THEN Unread(c) ELSE toClient
          /\ doc' = [doc EXCEPT ![c] = st.doc]
          /\ LocalClock' = [LocalClock EXCEPT ![c] = st.clock]
          /\ Cursor' = [Cursor EXCEPT ![c] = st.cursor]
          /\ toServer' = [toServer EXCEPT ![c] = @ \o st.out]
          /\ early' = (early \/ ~BootDone)
          /\ last' = IF st.out = << >> THEN last
                     ELSE [NoLast EXCEPT
                             !.op = "Insert", !.who = c,
                             !.before = st.before, !.after = st.doc,
                             !.pos = st.cursor, !.value = " ",
                             !.err = st.err, !.text = Content(st.doc)]
          /\ hist' = [hist EXCEPT
                 !.sent = @ \cup {st.out[i].Operation : i \in 1..Len(st.out)},
                 !.key = [kind |-> "tab", calls |-> st.calls,
                          msgs |-> Len(st.out)],
                 !.shown[c] = st.text,
                 !.order[c] = @ \o [i \in 1..Len(st.out) |->
                                      <<UuidOf(c), st.out[i].Operation>>]]
    /\ UNCHANGED <<SiteID, serverVars, pair, e>>

\* The arrow keys and Ctrl-B, -F, -P, -N: e.MoveCursor(x, y) with (-1, 0)
\* for left, (1, 0) for right, (0, -1) for up and (0, 1) for down.  An index
\* out of range in calcCursorUp or calcCursorDown ends the process.
KeyArrow(c, x, y) ==
    /\ proc[c] = "running"
    /\ LET res == EditorMoveCursor(
                      [NoEditor EXCEPT !.Text = Text(c), !.Cursor = Cursor[c]],
                      x, y)
       IN  /\ proc' = [proc EXCEPT ![c] = IF res.panic THEN "crashed" ELSE @]
           /\ toClient' = IF res.panic THEN Unread(c) ELSE toClient
           /\ Cursor' = [Cursor EXCEPT ![c] = res.ed.Cursor]
           /\ res.panic \/ res.ed.Cursor # Cursor[c]
    /\ UNCHANGED <<doc, SiteID, LocalClock, toServer, serverVars, hist, typed,
                   early, last, pair, e>>

\* Home: e.SetX(0).
KeyHome(c) ==
    /\ proc[c] = "running"
    /\ Cursor[c] # 0
    /\ Cursor' = [Cursor EXCEPT ![c] = 0]
    /\ UNCHANGED <<proc, doc, SiteID, LocalClock, toServer, toClient,
                   serverVars, hist, typed, early, last, pair, e>>

\* End: e.SetX(len(e.Text)).
KeyEnd(c) ==
    /\ proc[c] = "running"
    /\ Cursor[c] # Len(Text(c))
    /\ Cursor' = [Cursor EXCEPT ![c] = Len(Text(c))]
    /\ UNCHANGED <<proc, doc, SiteID, LocalClock, toServer, toClient,
                   serverVars, hist, typed, early, last, pair, e>>

\* The documents a file holds: an empty one and one with a character minted
\* by another site.
LoadedDocs == {New, Insert(New, 9, 0, 1, "b").doc}

\* Ctrl-S.  named: the -file flag was given; failed: crdt.Save returns an
\* error, which handleTermboxEvent returns and mainLoop returns in turn.
KeyCtrlS(c, named, failed) ==
    /\ proc[c] = "running"
    /\ typed' = typed + 1
    /\ proc' = [proc EXCEPT ![c] = IF named /\ failed THEN "exited" ELSE @]
    /\ toClient' = IF named /\ failed THEN Unread(c) ELSE toClient
    /\ UNCHANGED <<doc, SiteID, LocalClock, Cursor, toServer, serverVars,
                   hist, early, last, pair, e>>

\* Ctrl-L.  named: the -file flag was given; failed: crdt.Load returns an
\* error, which handleTermboxEvent returns; otherwise newDoc, the document
\* of the file, replaces the replica and is sent as a docSync with no id.
KeyCtrlL(c, named, failed, newDoc) ==
    /\ proc[c] = "running"
    /\ typed' = typed + 1
    /\ IF ~named
         THEN UNCHANGED <<proc, doc, Cursor, toServer, toClient, hist>>
       ELSE IF failed
         THEN /\ proc' = [proc EXCEPT ![c] = "exited"]
              /\ toClient' = Unread(c)
              /\ UNCHANGED <<doc, Cursor, toServer, hist>>
       ELSE /\ doc' = [doc EXCEPT ![c] = newDoc]
            /\ Cursor' = [Cursor EXCEPT ![c] = 0]
            /\ hist' = [hist EXCEPT !.shown[c] = Content(newDoc)]
            /\ toServer' = [toServer EXCEPT ![c] =
                   Append(@, Message("docSync", IdEmpty, NilUUID, IdEmpty,
                                     NoOperation, newDoc))]
            /\ UNCHANGED <<proc, toClient>>
    /\ UNCHANGED <<SiteID, LocalClock, serverVars, early, last, pair, e>>

\* Esc or Ctrl-C: handleTermboxEvent returns an error, mainLoop returns and
\* main closes the connection.
KeyEsc(c) ==
    /\ proc[c] = "running"
    /\ proc' = [proc EXCEPT ![c] = "exited"]
    /\ toClient' = Unread(c)
    /\ UNCHANGED <<doc, SiteID, LocalClock, Cursor, toServer, serverVars,
                   hist, typed, early, last, pair, e>>

(***************************************************************************)
(* client/engine.go: handleMsg                                             *)
(***************************************************************************)

\* A docSync that carries no document.
DocSyncReply_Empty(d, id) ==
    Message("docSync", IdEmpty, id, IdEmpty, NoOperation, New)

\* The answer to a docReq: the whole local document d, addressed to the uuid
\* the docReq carried.
DocSyncReply(d, id) ==
    Message("docSync", IdEmpty, id, IdEmpty, NoOperation, d)

ClientHandleMsg(c) ==
    /\ proc[c] = "running"
    /\ toClient[c] # << >>
    /\ LET msg == Head(toClient[c])
           rest == [toClient EXCEPT ![c] = Tail(@)]
       IN  /\ CASE msg.Type = "docSync" ->
                     /\ doc' = [doc EXCEPT ![c] = msg.Document]
                     /\ hist' = [hist EXCEPT
                            !.synced =
                                [who |-> c, id |-> msg.ID,
                                 to |-> IF c \in DOMAIN list THEN list[c].id
                                        ELSE NilUUID,
                                 installed |-> msg.Document,
                                 known |-> NotFor(msg.ID) # hist.answered,
                                 answered |->
                                     IF NotFor(msg.ID) # hist.answered
                                       THEN (CHOOSE a \in hist.answered :
                                                a.id = msg.ID).doc
                                     ELSE NilDocument],
                            !.answered = NotFor(msg.ID),
                            !.shown[c] = Content(msg.Document),
                            !.boot[c].done = TRUE,
                            !.boot[c].had = Handled_Ops(c)]
                     /\ UNCHANGED <<proc, SiteID, LocalClock, toServer, last>>
                [] msg.Type = "docReq" ->
                     /\ toServer' = [toServer EXCEPT ![c] =
                            Append(@, DocSyncReply(doc[c], msg.ID))]
                     /\ hist' = [hist EXCEPT
                            !.answered = NotFor(msg.ID)
                                \cup {[id |-> msg.ID, doc |-> doc[c]]},
                            !.shown[c] = Content(doc[c]),
                            !.boot = [j \in Clients |->
                                IF j \in SlotsOf(msg.ID)
                                  THEN [@[j] EXCEPT
                                           !.by = c,
                                           !.covers = [Handled_Ops(c) EXCEPT
                                               ![c] = Len(hist.order[c])]]
                                ELSE @[j]]]
                     /\ UNCHANGED <<proc, doc, SiteID, LocalClock, last>>
                [] msg.Type = "SiteID" ->
                     /\ SiteID' = [SiteID EXCEPT ![c] = Atoi(msg.Text)]
                     /\ hist' = [hist EXCEPT !.shown[c] = Content(doc[c])]
                     /\ UNCHANGED <<proc, doc, LocalClock, toServer, last>>
                [] msg.Type = "join" ->
                     /\ hist' = [hist EXCEPT !.shown[c] = Content(doc[c])]
                     /\ UNCHANGED <<proc, doc, SiteID, LocalClock, toServer,
                                    last>>
                [] OTHER ->
                     CASE msg.Operation.Type = "insert" ->
                            LET res == Insert(doc[c], SiteID[c], LocalClock[c],
                                              msg.Operation.Position,
                                              msg.Operation.Value)
                            IN  IF res.panic
                                  THEN /\ proc' = [proc EXCEPT ![c] = "crashed"]
                                       /\ UNCHANGED <<doc, SiteID, LocalClock,
                                                      toServer, last, hist>>
                                ELSE /\ doc' = [doc EXCEPT ![c] = res.doc]
                                     /\ LocalClock' =
                                            [LocalClock EXCEPT ![c] = res.clock]
                                     /\ last' = [NoLast EXCEPT
                                            !.op = "Insert", !.who = c,
                                            !.before = doc[c],
                                            !.after = res.doc,
                                            !.pos = msg.Operation.Position,
                                            !.value = msg.Operation.Value,
                                            !.err = res.err, !.text = res.text]
                                     /\ hist' = [hist EXCEPT
                                            !.shown[c] = Content(res.doc),
                                            !.got[c][SenderOf(msg.ID, c)] =
                                                Append(@, <<msg.ID,
                                                            msg.Operation>>)]
                                     /\ UNCHANGED <<proc, SiteID, toServer>>
                       [] msg.Operation.Type = "delete" ->
                            LET res == Delete(doc[c], msg.Operation.Position)
                            IN  /\ doc' = [doc EXCEPT ![c] = res.doc]
                                /\ last' = [NoLast EXCEPT
                                       !.op = "Delete", !.who = c,
                                       !.before = doc[c],
                                       !.after = res.doc,
                                       !.pos = msg.Operation.Position,
                                       !.text = res.text]
                                /\ hist' = [hist EXCEPT
                                       !.shown[c] = Content(res.doc),
                                       !.got[c][SenderOf(msg.ID, c)] =
                                           Append(@, <<msg.ID,
                                                       msg.Operation>>)]
                                /\ UNCHANGED <<proc, SiteID, LocalClock,
                                               toServer>>
                       [] OTHER ->
                            /\ hist' = [hist EXCEPT
                                   !.shown[c] = Content(doc[c])]
                            /\ UNCHANGED <<proc, doc, SiteID, LocalClock,
                                           toServer, last>>
           /\ toClient' = IF proc'[c] = "running" THEN rest ELSE Unread(c)
    /\ UNCHANGED <<Cursor, serverVars, typed, early, pair, e>>

(***************************************************************************)
(* server/main.go                                                          *)
(***************************************************************************)

\* The goroutines run concurrently and give way to one another wherever they
\* block: at a request to the goroutine of Clients.handle (add, get, getAll,
\* delete, updateName), at a write to a connection, at a read of a
\* connection and at a send to or a receive from messageChan and syncChan.
\* There is one action for each of these points; what a goroutine does
\* between two of them touches only its own variables and belongs to the
\* action that ends at the second.
Go == conn.go

\* The frame of goroutine g.
Fr(g) == Go.g[g]

SetGo(r) == conn' = [conn EXCEPT !.go = r]

\* The frames once goroutine g is at f.
With(g, f) == [Go EXCEPT !.g[g] = f]

\* The uuids of the clients in the table.
Ids(l) == {l[d].id : d \in DOMAIN l}

\* The goroutine of Clients.handle is at its select: it does not wait for
\* the lock of the table and is not in the middle of a read-all answer.
TableServes == ~stuck.table /\ Go.mon.for = 0

\* The frames in G once the list has changed by d clients: a goroutine that
\* is in getAll may have sized its response channel before the change.
Resized(G, d) ==
    [G EXCEPT !.g = [x \in Serving |->
                        IF G.g[x].pc = "getAll"
                          THEN [G.g[x] EXCEPT
                                   !.lag = IF @ + d < 0 THEN 0 ELSE @ + d]
                        ELSE G.g[x]]]

\* The requester of the read-all answer m receives k more clients: the
\* goroutine of the table is done once the last client is in the channel.
Received(m, k) ==
    IF m.owe <= k THEN NoMon ELSE [m EXCEPT !.owe = @ - k, !.own = FALSE]

\* The range over the response channel takes the next client to write to:
\* a function that skips the client of the requester may receive that one
\* first (the order of the range is arbitrary).
Receives(m) ==
    {IF m.owe <= 1 THEN NoMon ELSE [m EXCEPT !.owe = @ - 1]}
        \cup (IF m.own THEN {Received(m, 2)} ELSE {})

\* The slot of the connection of the client with uuid u.
SlotOf(u) == Go.heap[u].slot

\* The orders in which a range over a map can visit the elements of S.
RECURSIVE Perms(_)
Perms(S) ==
    IF S = {} THEN {<< >>}
    ELSE UNION {{<<x>> \o p : p \in Perms(S \ {x})} : x \in S}

Range(f) == {f[i] : i \in 1..Len(f)}

\* delete(c.list, id) for every id of S.
RemoveAll(l, S) == [d \in DOMAIN l \ S |-> l[d]]

\* A read loop that gives every message the id of the sending client.
StampOrigin_Always(msg, clientID) == [msg EXCEPT !.ID = clientID]

\* The read loop of handleConn: docSync keeps the id of its destination, any
\* other message gets the id of the sending client.
StampOrigin(msg, clientID) ==
    IF msg.Type = "docSync" THEN msg ELSE [msg EXCEPT !.ID = clientID]

\* handleSync has called clients.delete, whose sendUsernames sends to
\* syncChan: handleSync is the only receiver, so it blocks for ever.
StuckSync ==
    \/ Fr(SyncG).pc \in {"usersGetAll", "usersBuild", "usersSend"}
    \/ Fr(SyncG).pc # "recv" /\ stuck.table

\* c.Conn.WriteJSON to the connection of the client with uuid u: it fails
\* once the server has closed the connection, it succeeds while the peer
\* runs, and once the peer is gone it does either.
SendOutcomes(u) ==
    IF u \in Go.closed THEN {"err"}
    ELSE IF proc[SlotOf(u)] = "running" THEN {"ok"}
    ELSE {"ok", "err"}

\* What the run of a broadcast function that frame f has finished leaves in
\* the history: the slots stand for the clients.
Wrote(f) ==
    [msg |-> f.msg, table |-> f.run.table,
     targets |-> {SlotOf(u) : u \in f.run.targets},
     ids |-> f.run.targets,
     written |-> {SlotOf(u) : u \in f.run.written},
     failed |-> [i \in 1..Len(f.run.failed) |-> SlotOf(f.run.failed[i])],
     blocked |-> FALSE, nobody |-> FALSE]

\* Where goroutine g is once the broadcast function of frame f has returned:
\* handleConn goes from broadcastOne(siteIDMsg) to broadcastOneExcept(docReq)
\* and from there to sendUsernames; handleMsg and handleSync go back to
\* their receive.
AfterLoop(g, f) ==
    CASE f.job = "siteID" ->
           [Parked(g) EXCEPT
               !.pc = "getAll", !.job = "docReq", !.id = f.id,
               !.msg = Message("docReq", IdEmpty, f.id, IdEmpty, NoOperation,
                               NilDocument)]
      [] f.job = "docReq" ->
           [Parked(g) EXCEPT !.pc = "usersGetAll", !.job = "users",
                             !.id = f.id]
      [] OTHER -> Parked(g)

\* Where goroutine g is once the sendUsernames of frame f has returned:
\* inside clients.delete it returns to the loop that called delete or, for
\* a failed read, makes handleConn return; after the accept it leads to the
\* read loop; in handleMsg a join goes on to broadcastAllExcept.
AfterUsers(g, f) ==
    IF f.nested
      THEN IF f.job = "readErr" THEN Parked(g)
           ELSE IF f.snap = {} THEN AfterLoop(g, f)
           ELSE [f EXCEPT !.pc = "send", !.nested = FALSE, !.cur = NilUUID]
    ELSE CASE f.job = "users" -> [Parked(g) EXCEPT !.pc = "read", !.id = f.id]
           [] f.job = "join" ->
                [Parked(g) EXCEPT !.pc = "getAll", !.job = "relay",
                                  !.msg = f.msg]
           [] OTHER -> Parked(g)

\* A broadcast function returns when sendUsernames returns to a loop that
\* has nothing left to do.
LoopEnds(f) == f.nested /\ f.job # "readErr" /\ f.snap = {}

\* A client process starts (client/main.go:94-103, 173-183: dial, write the
\* join message, take a new document or the one of a file) and the server
\* runs handleConn up to clients.add: it mints the uuid and the site ID.
\* The uuid of a connection is modelled by its number, which like uuid.New()
\* is fresh.  startDoc is the replica the process starts with and name the
\* name its user gave (main.go:74-85).
Accept(c, startDoc, name) ==
    /\ ~srvPanic
    /\ proc[c] # "running"
    /\ Fr(c).pc = "off"
    /\ LET clientID == siteID + 1
           join == Message("join", JoinText, NilUUID, name, NoOperation,
                           NilDocument)
       IN  /\ siteID' = siteID + 1
           /\ toServer' = [toServer EXCEPT ![c] = <<join>>]
           /\ toClient' = [toClient EXCEPT ![c] = << >>]
           /\ SetGo([Go EXCEPT
                  !.g[c] = [Parked(c) EXCEPT !.pc = "add", !.id = clientID],
                  !.heap = Append(@, [slot |-> c, SiteID |-> Sprint(clientID),
                                      Username |-> IdEmpty])])
           /\ hist' = [hist EXCEPT
                  !.users[c] = << >>,
                  !.shown[c] = << >>,
                  !.got[c] = [s \in Clients |-> << >>],
                  !.boot[c] = NoBoot]
    /\ reader' = [reader EXCEPT ![c] = TRUE]
    /\ proc' = [proc EXCEPT ![c] = "running"]
    /\ doc' = [doc EXCEPT ![c] = startDoc]
    /\ SiteID' = [SiteID EXCEPT ![c] = 0]
    /\ LocalClock' = [LocalClock EXCEPT ![c] = 0]
    /\ Cursor' = [Cursor EXCEPT ![c] = 0]
    /\ UNCHANGED <<list, messageChan, syncChan, srvPanic, stuck, typed,
                   early, last, pair, e>>

\* clients.add: the goroutine of the table takes the client and puts it in
\* the list.  With the read lock of the table leaked, c.mu.Lock() never
\* returns and the goroutine of the table serves no request any more.
add(c) ==
    /\ ~srvPanic
    /\ TableServes
    /\ Fr(c).pc = "add"
    /\ LET f == Fr(c)
           client == [id |-> f.id, SiteID |-> Go.heap[f.id].SiteID,
                      Username |-> Go.heap[f.id].Username]
       IN  IF stuck.leak
             THEN /\ stuck' = [stuck EXCEPT !.table = TRUE]
                  /\ UNCHANGED <<list, hist, conn>>
           ELSE /\ list' = [d \in DOMAIN list \cup {c} |->
                               IF d = c THEN client ELSE list[d]]
                /\ hist' = [hist EXCEPT
                       !.boot[c] = [NoBoot EXCEPT !.base = hist.relayed]]
                /\ SetGo(Resized(With(c, [f EXCEPT
                       !.pc = "get", !.job = "siteID", !.cur = f.id,
                       !.msg = Message("SiteID", Go.heap[f.id].SiteID, f.id,
                                       IdEmpty, NoOperation, NilDocument)]),
                                 1))
                /\ UNCHANGED stuck
    /\ UNCHANGED <<clientVars, toServer, toClient, siteID, messageChan,
                   syncChan, srvPanic, reader, typed, early, last, pair, e>>

\* broadcastOne: client := <-c.get(dst).  For an id that is not in the list
\* the client is nil and client.send dereferences it.  In handleSync the
\* panic ends the process.  In handleConn it unwinds the handler, whose
\* deferred conn.Close() runs, and net/http recovers it: that connection is
\* closed and the server goes on.
get(g) ==
    /\ ~srvPanic
    /\ TableServes
    /\ Fr(g).pc = "get"
    /\ LET f == Fr(g)
       IN  IF f.cur \in Ids(list)
             THEN /\ SetGo(With(g, [f EXCEPT
                         !.pc = "send", !.cur = NilUUID, !.snap = {f.cur},
                         !.run = [NoRun EXCEPT !.table = Ids(list),
                                               !.targets = {f.cur}]]))
                  /\ UNCHANGED <<srvPanic, reader, hist>>
           ELSE /\ srvPanic' = (g \notin Clients)
                /\ reader' = [c \in Clients |-> c # g /\ reader[c]]
                /\ hist' = [hist EXCEPT
                       !.wrote = [NoWrote EXCEPT
                                     !.msg = f.msg, !.table = Ids(list),
                                     !.nobody = TRUE],
                       !.answered = IF f.msg.Type = "docSync"
                                      THEN NotFor(f.msg.ID) ELSE @]
                /\ IF g \in Clients
                     THEN SetGo([Go EXCEPT !.g[g] = Parked(g),
                                           !.closed = @ \cup {f.id}])
                   ELSE UNCHANGED conn
    /\ UNCHANGED <<clientVars, toServer, toClient, siteID, list, messageChan,
                   syncChan, stuck, typed, early, last, pair, e>>

\* The clients a broadcast function of job j with message msg writes to,
\* of those with the uuids of S.
Targets(j, msg, S) == IF j = "all" THEN S ELSE S \ {msg.ID}

\* c.getAll() of a broadcast function: the goroutine of the table takes the
\* request and ranges over the clients in the list now.  The response
\* channel has room for the clients that were in the list when the requester
\* sized it, at some time since it came to getAll: if the list has grown by
\* short clients since, the goroutine of the table is busy until the
\* requester has received that many.  The requester receives the first
\* client at once.  With nobody to write to, the function returns, having
\* received every client.
getAll(g) ==
    /\ ~srvPanic
    /\ TableServes
    /\ Fr(g).pc = "getAll"
    /\ \E short \in 0..Fr(g).lag :
          LET f == Fr(g)
              T == Targets(f.job, f.msg, Ids(list))
              f1 == [f EXCEPT !.pc = "send", !.snap = T, !.lag = 0,
                              !.run = [NoRun EXCEPT !.table = Ids(list),
                                                    !.targets = T]]
              m == [for |-> g, owe |-> short, own |-> T # Ids(list)]
          IN  /\ \E m1 \in IF short = 0 \/ T = {} THEN {NoMon}
                            ELSE Receives(m) :
                    SetGo([Go EXCEPT
                       !.g[g] = IF T = {} THEN AfterLoop(g, f1) ELSE f1,
                       !.mon = m1])
              /\ hist' = [hist EXCEPT
                     !.wrote = IF T = {} THEN Wrote(f1) ELSE @,
                     !.relayed = IF f.job = "relay" THEN Relayed(f.msg)
                                 ELSE @]
    /\ UNCHANGED <<clientVars, toServer, toClient, siteID, list, messageChan,
                   syncChan, srvPanic, reader, stuck, typed, early, last,
                   pair, e>>

\* client.send in the loop of a broadcast function: one write, to any of the
\* clients still to come (a range over a map has no order).  A write that
\* fails leads to clients.delete; broadcastOneExcept stops at the first
\* write that succeeds; otherwise the range receives the next client, or
\* comes to the end of the channel.  A function that leaves the range, or
\* asks for a delete, while the goroutine of the table still has clients to
\* put in the channel leaves that goroutine blocked in its send.
send(g) ==
    /\ ~srvPanic
    /\ Fr(g).pc = "send"
    /\ \E u \in Fr(g).snap : \E out \in SendOutcomes(u) :
          LET f == Fr(g)
              rest == IF f.job = "docReq" /\ out = "ok" THEN {}
                      ELSE f.snap \ {u}
              f1 == [f EXCEPT
                       !.snap = rest,
                       !.run.written = IF out = "ok" THEN @ \cup {u} ELSE @,
                       !.run.failed = IF out = "err" THEN Append(@, u)
                                      ELSE @]
              heard == out = "ok" /\ proc[SlotOf(u)] = "running"
          IN  /\ toClient' = IF out = "ok"
                               THEN SendTo(toClient, {SlotOf(u)}, f.msg)
                             ELSE toClient
              /\ \E m1 \in IF Go.mon.for # g \/ out = "err"
                                 \/ (f.job = "docReq" /\ out = "ok")
                              THEN {Go.mon}
                            ELSE IF rest = {} THEN {NoMon}
                            ELSE Receives(Go.mon) :
                    SetGo([Go EXCEPT
                       !.g[g] = IF out = "err"
                                  THEN [f1 EXCEPT !.pc = "delete", !.cur = u]
                                ELSE IF rest = {} THEN AfterLoop(g, f1)
                                ELSE f1,
                       !.mon = m1])
              /\ hist' = [hist EXCEPT
                     !.wrote = IF out = "ok" /\ rest = {} THEN Wrote(f1)
                               ELSE @,
                     !.users[SlotOf(u)] =
                         IF heard /\ f.msg.Type = "users" THEN f.msg.Text
                         ELSE @,
                     !.answered = IF f.msg.Type = "docSync" /\ ~heard
                                    THEN NotFor(f.msg.ID)
                                  ELSE @]
    /\ UNCHANGED <<clientVars, toServer, siteID, list, messageChan, syncChan,
                   srvPanic, reader, stuck, typed, early, last, pair, e>>

\* clients.close(id) by the goroutine of the table: for a client in the list
\* it closes the connection and removes the client; for one that is not, it
\* returns with the read lock of the table held; and once that lock is
\* leaked, c.mu.Lock() never returns.
Close(id) ==
    IF id \notin Ids(list)
      THEN /\ stuck' = [stuck EXCEPT !.leak = TRUE]
           /\ UNCHANGED list
    ELSE IF stuck.leak
      THEN /\ stuck' = [stuck EXCEPT !.table = TRUE]
           /\ UNCHANGED list
    ELSE /\ list' = RemoveAll(list, SlotsOf(id))
         /\ UNCHANGED stuck

\* The connections closed once clients.close(id) has run.
Closed(id) == IF id \in Ids(list) THEN Go.closed \cup {id} ELSE Go.closed

\* clients.delete(client.id) after a write that failed: the request, the
\* close and the answer on req.done; sendUsernames comes next.
delete(g) ==
    /\ ~srvPanic
    /\ TableServes
    /\ Fr(g).pc = "delete"
    /\ LET f == Fr(g)
           done == ~(f.cur \in Ids(list) /\ stuck.leak)
       IN  /\ Close(f.cur)
           /\ SetGo(Resized([Go EXCEPT
                  !.closed = Closed(f.cur),
                  !.g[g] = IF done
                             THEN [f EXCEPT !.pc = "usersGetAll",
                                            !.nested = TRUE]
                           ELSE f],
                  IF f.cur \in Ids(list) /\ ~stuck.leak THEN -1 ELSE 0))
    /\ UNCHANGED <<clientVars, toServer, toClient, siteID, messageChan,
                   syncChan, srvPanic, reader, hist, typed, early, last,
                   pair, e>>

\* sendUsernames: c.getAll(), the clients in the table now.
usersGetAll(g) ==
    /\ ~srvPanic
    /\ TableServes
    /\ Fr(g).pc = "usersGetAll"
    /\ SetGo(With(g, [Fr(g) EXCEPT !.pc = "usersBuild", !.cur = NilUUID,
                                   !.users = Ids(list)]))
    /\ UNCHANGED <<clientVars, toServer, toClient, siteID, list, messageChan,
                   syncChan, srvPanic, reader, stuck, hist, typed, early,
                   last, pair, e>>

\* The client structs as the loop of sendUsernames in frame f has read
\* them: a name it read before clients.updateName changed it is the old one.
NamesRead(f) ==
    [u \in DOMAIN Go.heap |->
        IF u \in DOMAIN f.read
          THEN [Go.heap[u] EXCEPT !.Username = f.read[u]]
        ELSE Go.heap[u]]

\* sendUsernames: the names of the clients in the order of the range, each
\* read at some time since the getAll, and the send to syncChan, which waits
\* for handleSync.
sendUsernames(g) ==
    /\ ~srvPanic
    /\ Fr(g).pc = "usersBuild"
    /\ \E order \in Perms(Fr(g).users) :
          /\ syncChan' = Append(syncChan,
                                UsersMessage(NamesRead(Fr(g)), order))
          /\ SetGo([Go EXCEPT
                 !.g[g] = [Fr(g) EXCEPT !.pc = "usersSend", !.users = {},
                                        !.read = << >>],
                 !.sendq.sync = Append(@, g)])
    /\ UNCHANGED <<clientVars, toServer, toClient, siteID, list, messageChan,
                   srvPanic, reader, stuck, hist, typed, early, last, pair,
                   e>>

\* The read loop of handleConn, main.go:136: client.read returns one frame
\* of a connection that is not closed; the handler holds the message, a
\* docSync as it came and any other with the uuid of the connection as its
\* ID, and goes on to the send.
ServerRead(c) ==
    /\ ~srvPanic
    /\ Fr(c).pc = "read"
    /\ Fr(c).id \notin Go.closed
    /\ toServer[c] # << >>
    /\ toServer' = [toServer EXCEPT ![c] = Tail(@)]
    /\ SetGo([Go EXCEPT
           !.g[c].pc = "chanSend",
           !.g[c].msg = StampOrigin(Head(toServer[c]), Fr(c).id)])
    /\ UNCHANGED <<clientVars, toClient, siteID, list, messageChan, syncChan,
                   srvPanic, reader, stuck, hist, typed, early, last, pair,
                   e>>

\* The read loop of handleConn, main.go:145 and 154: the handler comes to
\* syncChan <- msg or to messageChan <- msg with the message it has read,
\* whatever has become of the connection since, and waits there for the
\* goroutine that receives from the channel.
chanSend(c) ==
    /\ ~srvPanic
    /\ Fr(c).pc = "chanSend"
    /\ LET msg == Fr(c).msg
       IN  IF msg.Type = "docSync"
             THEN /\ syncChan' = Append(syncChan, msg)
                  /\ SetGo([Go EXCEPT !.g[c].pc = "chanWait",
                                      !.g[c].msg = ZeroMessage,
                                      !.sendq.sync = Append(@, c)])
                  /\ UNCHANGED messageChan
           ELSE /\ messageChan' = Append(messageChan, msg)
                /\ SetGo([Go EXCEPT !.g[c].pc = "chanWait",
                                    !.g[c].msg = ZeroMessage,
                                    !.sendq.msg = Append(@, c)])
                /\ UNCHANGED syncChan
    /\ UNCHANGED <<clientVars, toServer, toClient, siteID, list, srvPanic,
                   reader, stuck, hist, typed, early, last, pair, e>>

\* client.read fails once the peer is gone and its frames are consumed, or
\* once the server has closed the connection; it calls clients.delete, whose
\* request the goroutine of the table serves.
ServerReadError(c) ==
    /\ ~srvPanic
    /\ TableServes
    /\ Fr(c).pc = "read"
    /\ \/ Fr(c).id \in Go.closed
       \/ proc[c] # "running" /\ toServer[c] = << >>
    /\ LET f == Fr(c)
           done == ~(f.id \in Ids(list) /\ stuck.leak)
       IN  /\ Close(f.id)
           /\ SetGo(Resized([Go EXCEPT
                  !.closed = Closed(f.id),
                  !.g[c] = IF done
                             THEN [f EXCEPT !.pc = "usersGetAll",
                                            !.job = "readErr",
                                            !.nested = TRUE]
                           ELSE [f EXCEPT !.pc = "delete", !.job = "readErr",
                                          !.cur = f.id]],
                  IF f.id \in Ids(list) /\ ~stuck.leak THEN -1 ELSE 0))
    /\ UNCHANGED <<clientVars, toServer, toClient, siteID, messageChan,
                   syncChan, srvPanic, reader, hist, typed, early, last,
                   pair, e>>

\* handleMsg: msg := <-messageChan, which lets the read loop that sent it go
\* on.  A join leads to clients.updateName, an operation to
\* broadcastAllExcept, anything else to sendUsernames.
HandleMsg ==
    /\ ~srvPanic
    /\ Fr(MsgG).pc = "recv"
    /\ messageChan # << >>
    /\ LET msg == Head(messageChan)
           from == Head(Go.sendq.msg)
           f == [Parked(MsgG) EXCEPT !.msg = msg]
       IN  /\ messageChan' = Tail(messageChan)
           /\ SetGo([Go EXCEPT
                  !.sendq.msg = Tail(@),
                  !.g[from].pc = "read",
                  !.g[MsgG] =
                      CASE msg.Type = "join" ->
                             [f EXCEPT !.pc = "updateName", !.job = "join"]
                        [] msg.Type = "operation" ->
                             [f EXCEPT !.pc = "getAll", !.job = "relay"]
                        [] OTHER ->
                             [f EXCEPT !.pc = "usersGetAll",
                                       !.job = "unknown"]])
    /\ UNCHANGED <<clientVars, toServer, toClient, siteID, list, syncChan,
                   srvPanic, reader, stuck, hist, typed, early, last, pair,
                   e>>

\* clients.updateName: c.list[n.id].Username = n.newName in the goroutine of
\* the table.  For an id that is not in the list c.list[n.id] is nil: the
\* process panics.  The write is not synchronised with the loops of
\* sendUsernames that hold the client: each of them has read the name
\* already, or reads it later.
updateName ==
    /\ ~srvPanic
    /\ TableServes
    /\ Fr(MsgG).pc = "updateName"
    /\ LET msg == Fr(MsgG).msg
           loops == {g \in Serving : /\ Fr(g).pc = "usersBuild"
                                     /\ msg.ID \in Fr(g).users
                                     /\ msg.ID \notin DOMAIN Fr(g).read}
       IN  IF msg.ID \notin Ids(list)
             THEN /\ srvPanic' = TRUE
                  /\ UNCHANGED <<list, conn>>
           ELSE /\ list' = [d \in DOMAIN list |->
                               IF list[d].id = msg.ID
                                 THEN [list[d] EXCEPT
                                          !.Username = msg.Username]
                               ELSE list[d]]
                /\ \E done \in SUBSET loops :
                      SetGo([Go EXCEPT
                         !.heap[msg.ID].Username = msg.Username,
                         !.g = [g \in Serving |->
                                  IF g = MsgG
                                    THEN [@[g] EXCEPT !.pc = "usersGetAll"]
                                  ELSE IF g \in done
                                    THEN [@[g] EXCEPT !.read =
                                            [u \in DOMAIN @ \cup {msg.ID} |->
                                               IF u = msg.ID
                                                 THEN Go.heap[u].Username
                                               ELSE @[u]]]
                                  ELSE @[g]]])
                /\ UNCHANGED srvPanic
    /\ UNCHANGED <<clientVars, toServer, toClient, siteID, messageChan,
                   syncChan, reader, stuck, hist, typed, early, last, pair,
                   e>>

\* handleSync: syncMsg := <-syncChan, which lets the goroutine that sent it
\* go on: a read loop reads again, and sendUsernames returns, which can end
\* a broadcast function or, after a failed read, handleConn (whose deferred
\* conn.Close() runs).  A docSync leads to broadcastOne, a users list to
\* broadcastAll; anything else is dropped.
HandleSync ==
    /\ ~srvPanic
    /\ Fr(SyncG).pc = "recv"
    /\ syncChan # << >>
    /\ LET syncMsg == Head(syncChan)
           from == Head(Go.sendq.sync)
           f == Fr(from)
           back == IF f.pc = "chanWait" THEN [f EXCEPT !.pc = "read"]
                   ELSE AfterUsers(from, f)
       IN  /\ syncChan' = Tail(syncChan)
           /\ SetGo([Go EXCEPT
                  !.sendq.sync = Tail(@),
                  !.closed = IF back.pc = "off" THEN @ \cup {f.id} ELSE @,
                  !.g = [@ EXCEPT
                           ![from] = back,
                           ![SyncG] =
                               CASE syncMsg.Type = "docSync" ->
                                      [Parked(SyncG) EXCEPT
                                          !.pc = "get", !.job = "one",
                                          !.msg = syncMsg,
                                          !.cur = syncMsg.ID]
                                 [] syncMsg.Type = "users" ->
                                      [Parked(SyncG) EXCEPT
                                          !.pc = "getAll", !.job = "all",
                                          !.msg = syncMsg]
                                 [] OTHER -> Parked(SyncG)]])
           /\ reader' = [c \in Clients |->
                            IF c = from THEN back.pc # "off" ELSE reader[c]]
           /\ hist' = [hist EXCEPT
                  !.wrote = IF f.pc # "chanWait" /\ LoopEnds(f)
                              THEN Wrote(f) ELSE @]
    /\ UNCHANGED <<clientVars, toServer, toClient, siteID, list, messageChan,
                   srvPanic, stuck, typed, early, last, pair, e>>

(***************************************************************************)
(* The session: clients and server                                         *)
(***************************************************************************)

Init ==
    /\ proc = [c \in Clients |-> "off"]
    /\ doc = [c \in Clients |-> New]
    /\ SiteID = [c \in Clients |-> 0]
    /\ LocalClock = [c \in Clients |-> 0]
    /\ Cursor = [c \in Clients |-> 0]
    /\ toServer = [c \in Clients |-> << >>]
    /\ toClient = [c \in Clients |-> << >>]
    /\ siteID = 0
    /\ list = << >>
    /\ messageChan = << >>
    /\ syncChan = << >>
    /\ srvPanic = FALSE
    /\ reader = [c \in Clients |-> FALSE]
    /\ stuck = NoStuck
    /\ conn = NoConn
    /\ hist = NoHist
    /\ typed = 0
    /\ early = FALSE
    /\ last = NoLast
    /\ pair = NoPair
    /\ e = NoEditor

\* The replicas a client process starts with: a new document or, with the
\* -file flag, the document of the file.
StartDocs == {New} \cup LoadedDocs

\* The keys that insert a rune: the letters, Space and Enter.
Keys == Runes \cup {" ", NewLine}

Next ==
    \/ \E c \in Clients, d \in StartDocs :
          \E name \in {NameOf(c), NameOf(1)} :
             siteID < MaxSites /\ Accept(c, d, name)
    \/ \E c \in Clients : add(c)
    \/ \E g \in Serving : get(g)
    \/ \E g \in Serving : getAll(g)
    \/ \E g \in Serving : send(g)
    \/ \E g \in Serving : delete(g)
    \/ \E g \in Serving : usersGetAll(g)
    \/ \E g \in Serving : sendUsernames(g)
    \/ \E c \in Clients : ServerRead(c)
    \/ \E c \in Clients : chanSend(c)
    \/ \E c \in Clients : ServerReadError(c)
    \/ HandleMsg
    \/ updateName
    \/ HandleSync
    \/ \E c \in Clients : ClientHandleMsg(c)
    \/ \E c \in Clients, r \in Keys : typed < MaxTypedJoin /\ KeyRune(c, r)
    \/ \E c \in Clients : typed < MaxTypedJoin /\ KeyBackspace(c)
    \/ \E c \in Clients : typed < MaxTypedJoin /\ KeyTab(c)
    \/ \E c \in Clients, x \in {0 - 1, 1} : KeyArrow(c, x, 0)
    \/ \E c \in Clients, y \in {0 - 1, 1} : KeyArrow(c, 0, y)
    \/ \E c \in Clients : KeyHome(c)
    \/ \E c \in Clients : KeyEnd(c)
    \/ \E c \in Clients, named, failed \in BOOLEAN :
          typed < MaxTypedJoin /\ KeyCtrlS(c, named, failed)
    \/ \E c \in Clients, named, failed \in BOOLEAN, newDoc \in LoadedDocs :
          typed < MaxTypedJoin /\ KeyCtrlL(c, named, failed, newDoc)
    \/ \E c \in Clients : KeyEsc(c)

Spec == Init /\ [][Next]_vars

\* The session once the first k clients have connected, one after the other,
\* each with a new document, and every frame of their joining is handled:
\* the uuid and the site ID of client c are c, every handleConn is in its
\* read loop and handleMsg and handleSync wait for a message.
ServerSettled(k) ==
    /\ proc = [c \in Clients |-> IF c <= k THEN "running" ELSE "off"]
    /\ SiteID = [c \in Clients |-> IF c <= k THEN c ELSE 0]
    /\ toServer = [c \in Clients |-> << >>]
    /\ toClient = [c \in Clients |-> << >>]
    /\ siteID = k
    /\ list = [c \in 1..k |->
                 [id |-> c, SiteID |-> Sprint(c), Username |-> NameOf(c)]]
    /\ messageChan = << >>
    /\ syncChan = << >>
    /\ srvPanic = FALSE
    /\ reader = [c \in Clients |-> c <= k]
    /\ stuck = NoStuck
    /\ conn = [NoConn EXCEPT
                 !.go.g = [g \in Serving |->
                              IF g \in 1..k
                                THEN [Parked(g) EXCEPT !.pc = "read", !.id = g]
                              ELSE Parked(g)],
                 !.go.heap = [c \in 1..k |->
                                 [slot |-> c, SiteID |-> Sprint(c),
                                  Username |-> NameOf(c)]]]

\* The same, with nothing typed yet.
SettledOf(k) ==
    /\ ServerSettled(k)
    /\ doc = [c \in Clients |-> New]
    /\ LocalClock = [c \in Clients |-> 0]
    /\ Cursor = [c \in Clients |-> 0]

\* Every client has connected and is settled.
Settled == SettledOf(NClients)

\* The history and the counters at the start of a run.
NoPast ==
    /\ hist = NoHist
    /\ typed = 0
    /\ early = FALSE
    /\ last = NoLast
    /\ pair = NoPair
    /\ e = NoEditor

\* The clients whose process has ended.
Gone == {c \in Clients : proc[c] \in {"exited", "crashed"}}

InitEdit == Settled /\ NoPast

\* The session with one client, and with two.
InitOne == SettledOf(1) /\ NoPast

InitTwo == SettledOf(2) /\ NoPast

\* The slots name the connections: a new one takes the lowest free slot.
LowestFree(c) ==
    LET Free(d) == proc[d] # "running" /\ d \notin DOMAIN list /\ ~reader[d]
    IN  Free(c) /\ \A d \in Clients : d < c => ~Free(d)

\* Every goroutine of the server waits for a frame or for a message.
ServerIdle ==
    /\ \A c \in Clients : Fr(c).pc \in {"off", "read"}
    /\ Fr(MsgG).pc = "recv"
    /\ Fr(SyncG).pc = "recv"

\* No frame is in flight and the server has nothing to do.
Quiescent ==
    /\ \A c \in Clients : toServer[c] = << >> /\ toClient[c] = << >>
    /\ messageChan = << >>
    /\ syncChan = << >>
    /\ ServerIdle

\* The connections the server accepts in SpecServer after the first.
MaxServerSites == 1

\* The session as the server sees it (SpecServer): a session of one client
\* that a second one joins, with every interleaving of the goroutines of the
\* server and of the read loops of the clients.  Nobody types and nobody
\* leaves: the runs with keys are those of SpecSync and SpecStart, the runs
\* with departures those of SpecLive and SpecLeave.
NextServer ==
    \/ \E c \in Clients :
          /\ siteID < 1 + MaxServerSites
          /\ LowestFree(c) /\ Accept(c, New, NameOf(c))
    \/ \E c \in Clients : add(c)
    \/ \E g \in Serving : get(g)
    \/ \E g \in Serving : getAll(g)
    \/ \E g \in Serving : send(g)
    \/ \E g \in Serving : usersGetAll(g)
    \/ \E g \in Serving : sendUsernames(g)
    \/ \E c \in Clients : ServerRead(c)
    \/ \E c \in Clients : chanSend(c)
    \/ HandleMsg
    \/ updateName
    \/ HandleSync
    \/ \E c \in Clients : ClientHandleMsg(c)

SpecServer == InitOne /\ [][NextServer]_vars

\* The rune the user of client c types in SpecEdit: each client has its own.
RuneOf(c) == IF c = 1 THEN "a" ELSE "b"

\* Two clients edit (SpecEdit): they type runes and Backspace, MaxTyped keys
\* in all, and move their cursors at any time; the server relays.  A client
\* whose cursor a remote delete has left beyond its text panics on its next
\* rune or vertical move: the server then sees the read of its connection
\* fail, or a write to it, removes it and announces the users that are
\* left, and goes on relaying.  Nobody connects.
NextEdit ==
    \/ \E g \in Serving : getAll(g)
    \/ \E g \in Serving : send(g)
    \/ \E g \in Serving : delete(g)
    \/ \E g \in Serving : usersGetAll(g)
    \/ \E g \in Serving : sendUsernames(g)
    \/ \E c \in Clients : ServerRead(c)
    \/ \E c \in Clients : chanSend(c)
    \/ \E c \in Clients : ServerReadError(c)
    \/ HandleMsg
    \/ HandleSync
    \/ \E c \in Clients : ClientHandleMsg(c)
    \/ \E c \in Clients : typed < MaxTyped /\ KeyRune(c, RuneOf(c))
    \/ \E c \in Clients : typed < MaxTyped /\ KeyBackspace(c)
    \/ \E c \in Clients, x \in {0 - 1, 1} : KeyArrow(c, x, 0)
    \/ \E c \in Clients, y \in {0 - 1, 1} : KeyArrow(c, 0, y)
    \/ \E c \in Clients : KeyHome(c)
    \/ \E c \in Clients : KeyEnd(c)

SpecEdit == InitTwo /\ [][NextEdit]_vars

\* The document of site 1 after its first rune, "a".
DocA ==
    <<Character(IdStart, FALSE, "", IdEmpty, <<49, 49>>),
      Character(<<49, 49>>, TRUE, "a", IdStart, IdEnd),
      Character(IdEnd, FALSE, "", <<49, 49>>, IdEmpty)>>

\* DocA is what Insert makes of that key.
DocAIsTyped == DocA = Insert(New, 1, 0, 1, "a").doc

\* Three clients are connected and settled.  Client 1 has typed "a"; the
\* server has read the operation and handleMsg, in broadcastAllExcept, has
\* taken its snapshot of the table and is about to write to clients 2 and 3.
InitLeave ==
    LET op == [Type |-> "insert", Position |-> 1, Value |-> "a"]
        msg == Message("operation", IdEmpty, 1, IdEmpty, op, NilDocument)
    IN  /\ proc = [c \in Clients |-> "running"]
        /\ SiteID = [c \in Clients |-> c]
        /\ toServer = [c \in Clients |-> << >>]
        /\ toClient = [c \in Clients |-> << >>]
        /\ siteID = NClients
        /\ list = [c \in Clients |->
                     [id |-> c, SiteID |-> Sprint(c), Username |-> NameOf(c)]]
        /\ messageChan = << >>
        /\ syncChan = << >>
        /\ srvPanic = FALSE
        /\ reader = [c \in Clients |-> TRUE]
        /\ stuck = NoStuck
        /\ conn = [NoConn EXCEPT
                     !.go.g = [g \in Serving |->
                                  IF g \in Clients
                                    THEN [Parked(g) EXCEPT !.pc = "read",
                                                           !.id = g]
                                  ELSE IF g = MsgG
                                    THEN [Parked(g) EXCEPT
                                            !.pc = "send", !.job = "relay",
                                            !.msg = msg, !.snap = {2, 3},
                                            !.run = [NoRun EXCEPT
                                                       !.table = {1, 2, 3},
                                                       !.targets = {2, 3}]]
                                  ELSE Parked(g)],
                     !.go.heap = [c \in Clients |->
                                     [slot |-> c, SiteID |-> Sprint(c),
                                      Username |-> NameOf(c)]]]
        /\ doc = [c \in Clients |-> IF c = 1 THEN DocA ELSE New]
        /\ LocalClock = [c \in Clients |-> IF c = 1 THEN 1 ELSE 0]
        /\ Cursor = [c \in Clients |-> IF c = 1 THEN 1 ELSE 0]
        /\ hist = [NoHist EXCEPT
                     !.sent = {op},
                     !.key = [kind |-> "rune", calls |-> 1, msgs |-> 1],
                     !.shown[1] = <<"a">>,
                     !.order[1] = <<<<1, op>>>>,
                     !.relayed[1] = 1]
        /\ typed = 1
        /\ early = FALSE
        /\ last = [NoLast EXCEPT !.op = "Insert", !.who = 1, !.before = New,
                     !.after = DocA, !.pos = 1, !.value = "a", !.err = "nil",
                     !.text = <<"a">>]
        /\ pair = NoPair
        /\ e = NoEditor

\* The session coming apart (SpecLeave): from there two of the clients
\* leave, at any time and with every interleaving of the goroutines of the
\* server and of the read loops of the clients.  Nobody types and nobody
\* connects: no frame reaches the server any more, and clients.add and
\* clients.updateName are not called.
NextLeave ==
    \/ \E g \in Serving : getAll(g)
    \/ \E g \in Serving : send(g)
    \/ \E g \in Serving : delete(g)
    \/ \E g \in Serving : usersGetAll(g)
    \/ \E g \in Serving : sendUsernames(g)
    \/ \E c \in Clients : ServerReadError(c)
    \/ HandleSync
    \/ \E c \in Clients : ClientHandleMsg(c)
    \/ \E c \in Clients : Cardinality(Gone) < MaxLeaveGone /\ KeyEsc(c)

SpecLeave == InitLeave /\ [][NextLeave]_vars

\* C1: clients that started from the same document and have applied every
\* operation typed anywhere show the same text once nothing is in flight.
C1_Convergence ==
    (Quiescent /\ BootDone /\ ~early /\ ~srvPanic)
        => \A a, b \in Clients :
              (proc[a] = "running" /\ proc[b] = "running")
                  => Content(doc[a]) = Content(doc[b])

(***************************************************************************)
(* One replica driven through the interface of crdt/woot.go                *)
(***************************************************************************)

\* The replica of SpecCrdt is the one of the first slot.
R == CHOOSE c \in Clients : \A d \in Clients : c <= d

\* An identifier no character of SpecCrdt carries ("99").
IdAbsent == <<57, 57>>

CharacterAbsent == Character(IdAbsent, TRUE, "a", IdStart, IdEnd)

\* The replica of SpecCrdt is the one of the first client; the characters
\* it integrates were minted at the second one: its first character ("21")
\* is integrated on its own, as are characters that carry the ID of a
\* sentinel, its second ("22") in the comparisons.
RemoteFirst == Sprint(2) \o Sprint(1)

RemoteSecond == Sprint(2) \o Sprint(2)

IdsOf(d) == [i \in 1..Len(d) |-> d[i].ID]

IdSet(d) == {d[i].ID : i \in 1..Len(d)}

CharsOf(d) == {d[i] : i \in 1..Len(d)}

\* The characters of d that carry the identifier id.
Copies(d, id) == Cardinality({i \in 1..Len(d) : d[i].ID = id})

UniqueIds(d) == \A i, j \in 1..Len(d) : d[i].ID = d[j].ID => i = j

\* The characters besides the sentinels the replica d may grow to.
CharLimit(d) == IF UniqueIds(d) THEN MaxChars ELSE MaxDupChars

crdtFrame == <<Cursor, toServer, toClient, serverVars, hist, typed, early>>

InitCrdt ==
    /\ proc = [c \in Clients |-> IF c = R THEN "running" ELSE "off"]
    /\ doc = [c \in Clients |-> New]
    /\ SiteID = [c \in Clients |-> IF c = R THEN R ELSE 0]
    /\ LocalClock = [c \in Clients |-> 0]
    /\ Cursor = [c \in Clients |-> 0]
    /\ toServer = [c \in Clients |-> << >>]
    /\ toClient = [c \in Clients |-> << >>]
    /\ siteID = 0
    /\ list = << >>
    /\ messageChan = << >>
    /\ syncChan = << >>
    /\ srvPanic = FALSE
    /\ reader = [c \in Clients |-> FALSE]
    /\ stuck = NoStuck
    /\ conn = NoConn
    /\ hist = NoHist
    /\ typed = 0
    /\ early = FALSE
    /\ last = [NoLast EXCEPT !.op = "New", !.who = R, !.after = New]
    /\ pair = NoPair
    /\ e = NoEditor

\* doc.Insert(position, value)
ApiInsert(position, value) ==
    /\ proc[R] = "running"
    /\ pair = NoPair
    /\ Len(doc[R]) - 2 < CharLimit(doc[R])
    /\ LocalClock[R] < MaxChars
    /\ LET res == Insert(doc[R], SiteID[R], LocalClock[R], position, value)
       IN  /\ proc' = [proc EXCEPT ![R] = IF res.panic THEN "crashed" ELSE @]
           /\ doc' = [doc EXCEPT ![R] = res.doc]
           /\ LocalClock' = [LocalClock EXCEPT ![R] = res.clock]
           /\ last' = [NoLast EXCEPT !.op = "Insert", !.who = R,
                         !.before = doc[R], !.after = res.doc,
                         !.pos = position, !.value = value, !.err = res.err,
                         !.panic = res.panic, !.text = res.text]
    /\ UNCHANGED <<pair, e>>
    /\ UNCHANGED <<SiteID, crdtFrame>>

\* doc.Delete(position)
ApiDelete(position) ==
    /\ proc[R] = "running"
    /\ pair = NoPair
    /\ Len(doc[R]) - 2 <= MaxDeleteChars
    /\ LET res == Delete(doc[R], position)
       IN  /\ doc' = [doc EXCEPT ![R] = res.doc]
           /\ last' = [NoLast EXCEPT !.op = "Delete", !.who = R,
                         !.before = doc[R], !.after = res.doc,
                         !.pos = position, !.text = res.text]
    /\ UNCHANGED <<pair, e>>
    /\ UNCHANGED <<proc, SiteID, LocalClock, crdtFrame>>

\* doc.IntegrateInsert(char, charPrev, charNext)
ApiIntegrateInsert(char, charPrev, charNext) ==
    /\ proc[R] = "running"
    /\ pair = NoPair
    /\ Len(doc[R]) - 2 < CharLimit(doc[R])
    /\ Copies(doc[R], char.ID) <= MaxCopies
    /\ Contains(doc[R], char.ID) => Len(doc[R]) - 2 <= MaxCopyBase
    /\ LET res == IntegrateInsert(doc[R], char, charPrev, charNext)
       IN  /\ proc' = [proc EXCEPT ![R] = IF res.panic THEN "crashed" ELSE @]
           /\ doc' = [doc EXCEPT ![R] = res.doc]
           /\ last' = [NoLast EXCEPT !.op = "IntegrateInsert", !.who = R,
                         !.before = doc[R], !.after = res.doc, !.char = char,
                         !.prev = charPrev, !.next = charNext,
                         !.err = res.err, !.panic = res.panic,
                         !.depth = res.depth, !.endless = res.endless]
    /\ UNCHANGED <<pair, e>>
    /\ UNCHANGED <<SiteID, LocalClock, crdtFrame>>

\* doc.LocalInsert(char, position), called directly: the function is
\* exported and takes any character and any position.
ApiLocalInsert(char, position) ==
    /\ proc[R] = "running"
    /\ pair = NoPair
    /\ Len(doc[R]) - 2 <= MaxDirectBase
    /\ hist.direct < MaxDirect
    /\ LET res == LocalInsert(doc[R], char, position)
       IN  /\ hist' = [hist EXCEPT
                  !.direct = IF res.err = ErrNil THEN @ + 1 ELSE @]
           /\ proc' = [proc EXCEPT ![R] = IF res.panic THEN "crashed" ELSE @]
           /\ doc' = [doc EXCEPT ![R] = res.doc]
           /\ last' = [NoLast EXCEPT !.op = "LocalInsert", !.who = R,
                         !.before = doc[R], !.after = res.doc, !.char = char,
                         !.pos = position, !.err = res.err,
                         !.panic = res.panic]
    /\ UNCHANGED <<pair, e>>
    /\ UNCHANGED <<SiteID, LocalClock, Cursor, toServer, toClient, serverVars,
                   typed, early>>

\* doc.IntegrateDelete(char)
ApiIntegrateDelete(char) ==
    /\ proc[R] = "running"
    /\ pair = NoPair
    /\ Len(doc[R]) - 2 <= MaxDeleteChars
    /\ LET nd == IntegrateDelete(doc[R], char)
       IN  /\ doc' = [doc EXCEPT ![R] = nd]
           /\ last' = [NoLast EXCEPT !.op = "IntegrateDelete", !.who = R,
                         !.before = doc[R], !.after = nd, !.char = char]
    /\ UNCHANGED <<pair, e>>
    /\ UNCHANGED <<proc, SiteID, LocalClock, crdtFrame>>

\* doc.Left(charID) and doc.Right(charID); text is the ID returned.
ApiLeft(charID) ==
    /\ proc[R] = "running"
    /\ pair = NoPair
    /\ Len(doc[R]) - 2 <= MaxLookupBase
    /\ LET res == Left(doc[R], charID)
       IN  /\ proc' = [proc EXCEPT ![R] = IF res.panic THEN "crashed" ELSE @]
           /\ last' = [NoLast EXCEPT !.op = "Left", !.who = R,
                         !.before = doc[R], !.after = doc[R],
                         !.char = Character(charID, FALSE, "", IdEmpty, IdEmpty),
                         !.panic = res.panic, !.text = res.id]
    /\ UNCHANGED <<doc, SiteID, LocalClock, crdtFrame, pair, e>>

ApiRight(charID) ==
    /\ proc[R] = "running"
    /\ pair = NoPair
    /\ Len(doc[R]) - 2 <= MaxLookupBase
    /\ LET res == Right(doc[R], charID)
       IN  /\ proc' = [proc EXCEPT ![R] = IF res.panic THEN "crashed" ELSE @]
           /\ last' = [NoLast EXCEPT !.op = "Right", !.who = R,
                         !.before = doc[R], !.after = doc[R],
                         !.char = Character(charID, FALSE, "", IdEmpty, IdEmpty),
                         !.panic = res.panic, !.text = res.id]
    /\ UNCHANGED <<doc, SiteID, LocalClock, crdtFrame, pair, e>>

\* The characters handed to IntegrateInsert: visible, with the identifier
\* id, between two characters prev and next.  IntegrateInsert looks at no
\* field of the character but its ID and takes any, one the replica holds
\* already and the ID of a sentinel included.
RemoteChars(id, value, prevs, nexts) ==
    {Character(id, TRUE, value, p.ID, n.ID) : p \in prevs, n \in nexts}

\* The identifiers of the characters integrated on their own: the first one
\* of the remote site and those of the sentinels.
RemoteIds == {RemoteFirst, IdStart, IdEnd}

\* A character of d by its ID (the arguments charPrev and charNext of an
\* integration are the characters named by the new one).
Named(d, id) == IF id = IdAbsent THEN CharacterAbsent ELSE Find(d, id)

\* prev and next are in d, prev before next.
WellPlaced(d, char) ==
    /\ Contains(d, char.IDPrevious)
    /\ Contains(d, char.IDNext)
    /\ Position(d, char.IDPrevious) < Position(d, char.IDNext)

Integrated(d, char) ==
    IntegrateInsert(d, char, Named(d, char.IDPrevious), Named(d, char.IDNext))

\* Two remote insertions integrated into copies of the replica in either
\* order.  The comparison ends the run of the replica.
CommuteInserts(a, b) ==
    /\ proc[R] = "running"
    /\ pair = NoPair
    /\ Len(doc[R]) - 2 <= MaxBase
    /\ ~Contains(doc[R], a.ID) /\ ~Contains(doc[R], b.ID)
    /\ WellPlaced(doc[R], a) /\ WellPlaced(doc[R], b)
    /\ LET ra == Integrated(doc[R], a)
           rb == Integrated(doc[R], b)
       IN  pair' = [NoPair EXCEPT !.kind = "insert-insert", !.base = doc[R],
                      !.a = a, !.b = b,
                      !.ab = Integrated(ra.doc, b).doc,
                      !.ba = Integrated(rb.doc, a).doc]
    /\ UNCHANGED <<clientVars, crdtFrame, last, e>>

\* The comparison of IntegrateDelete(del) and IntegrateInsert(a) on the
\* replica d: ab is the delete first (its outcome db, then the insert ab),
\* ba the insert first (its outcome ba, then the delete).  An insert that
\* panics ends the process and nothing is compared.
DeleteInsertPair(d, del, a, ab, ba) ==
    IF ab.panic \/ ba.panic THEN NoPair
    ELSE [NoPair EXCEPT !.kind = "delete-insert", !.base = d,
                        !.a = a, !.x = del.ID,
                        !.ab = ab.doc,
                        !.ba = IntegrateDelete(ba.doc, del)]

\* IntegrateDelete of the identifier x and the integration of a, whatever
\* its neighbours, in either order.
CommuteDeleteInsert(x, a) ==
    /\ proc[R] = "running"
    /\ pair = NoPair
    /\ Len(doc[R]) - 2 <= MaxBase
    /\ pair' = DeleteInsertPair(
                    doc[R], Character(x, FALSE, "", IdEmpty, IdEmpty), a,
                    Integrated(IntegrateDelete(
                                   doc[R],
                                   Character(x, FALSE, "", IdEmpty, IdEmpty)),
                               a),
                    Integrated(doc[R], a))
    /\ proc' = [proc EXCEPT ![R] = IF pair' = NoPair THEN "crashed" ELSE @]
    /\ UNCHANGED <<doc, SiteID, LocalClock, crdtFrame, last, e>>

\* IntegrateDelete of the identifiers x and y, in either order.
CommuteDeletes(x, y) ==
    /\ proc[R] = "running"
    /\ pair = NoPair
    /\ Len(doc[R]) - 2 <= MaxDeleteBase
    /\ StrLess(x, y)
    /\ LET dx == Character(x, FALSE, "", IdEmpty, IdEmpty)
           dy == Character(y, FALSE, "", IdEmpty, IdEmpty)
       IN  pair' = [NoPair EXCEPT !.kind = "delete-delete", !.base = doc[R],
                      !.a = dy, !.x = x,
                      !.ab = IntegrateDelete(IntegrateDelete(doc[R], dx), dy),
                      !.ba = IntegrateDelete(IntegrateDelete(doc[R], dy), dx)]
    /\ UNCHANGED <<clientVars, crdtFrame, last, e>>

\* Positions handed to Insert, Delete and LocalInsert.
Positions == (0 - 1)..Len(doc[R])

\* The characters handed to LocalInsert directly: one with the empty ID, and
\* one with the ID of each character of the replica, the sentinels included.
LocalChars(d) ==
    {Character(id, TRUE, "b", IdStart, IdEnd) : id \in {IdEmpty} \cup IdSet(d)}

NextCrdt ==
    \/ \E p \in Positions, v \in Runes : ApiInsert(p, v)
    \/ \E p \in Positions : ApiDelete(p)
    \/ \E id \in RemoteIds :
          \E char \in RemoteChars(id, "b",
                                  CharsOf(doc[R]) \cup {CharacterAbsent},
                                  CharsOf(doc[R]) \cup {CharacterAbsent}) :
              ApiIntegrateInsert(char, Named(doc[R], char.IDPrevious),
                                 Named(doc[R], char.IDNext))
    \/ \E char \in LocalChars(doc[R]), p \in Positions :
          ApiLocalInsert(char, p)
    \/ \E id \in IdSet(doc[R]) \cup {IdAbsent} :
          ApiIntegrateDelete(Character(id, FALSE, "", IdEmpty, IdEmpty))
    \/ \E a \in RemoteChars(RemoteSecond, "a",
                            CharsOf(doc[R]), CharsOf(doc[R])),
          b \in RemoteChars(RemoteFirst, "b",
                            CharsOf(doc[R]), CharsOf(doc[R])) :
          CommuteInserts(a, b)
    \/ \E a \in RemoteChars(RemoteSecond, "a",
                            CharsOf(doc[R]) \cup {CharacterAbsent},
                            CharsOf(doc[R]) \cup {CharacterAbsent}) :
          \E x \in IdSet(doc[R]) \cup {a.ID, IdAbsent} :
              CommuteDeleteInsert(x, a)
    \/ \E x, y \in IdSet(doc[R]) \cup {IdAbsent} : CommuteDeletes(x, y)
    \/ \E id \in {IdStart, IdEnd, IdAbsent} : ApiLeft(id)
    \/ \E id \in {IdStart, IdEnd, IdAbsent} : ApiRight(id)

SpecCrdt == InitCrdt /\ [][NextCrdt]_vars

(***************************************************************************)
(* Properties of the CRDT interface (SpecCrdt)                             *)
(***************************************************************************)

\* The IDs of the visible characters, in document order.
VisibleIds(d) == [i \in 1..Len(VisibleIdx(d)) |-> d[VisibleIdx(d)[i]].ID]

\* The sequence s with x put at index i (1-based).
InsertAt(s, i, x) == SubSeq(s, 1, i - 1) \o <<x>> \o SubSeq(s, i, Len(s))

\* The sequence s without its element at index i (1-based).
RemoveAt(s, i) == SubSeq(s, 1, i - 1) \o SubSeq(s, i + 1, Len(s))

\* C2: two insertions with distinct IDs whose prev and next are present
\* leave the same order of characters, and the same visible string,
\* whichever is integrated first.
C2_InsertsCommute ==
    pair.kind = "insert-insert"
        => /\ IdsOf(pair.ab) = IdsOf(pair.ba)
           /\ Content(pair.ab) = Content(pair.ba)

\* C3: IntegrateDelete(X) and any other integration, an IntegrateInsert or
\* an IntegrateDelete, leave the same characters with the same visible flags
\* in either order.
C3_DeleteCommutesAll ==
    pair.kind \in {"delete-insert", "delete-delete"} => pair.ab = pair.ba

\* C4: Insert(p, v) with 1 <= p <= visible length + 1 on a document with
\* unique IDs succeeds and returns the old visible string with v as its p-th
\* rune; the characters visible before stay visible, in their order.
C4_InsertInRange ==
    (/\ last.op = "Insert"
     /\ UniqueIds(last.before)
     /\ last.pos >= 1
     /\ last.pos <= Len(VisibleIdx(last.before)) + 1)
        => /\ ~last.panic
           /\ last.err = ErrNil
           /\ last.text = InsertAt(Content(last.before), last.pos, last.value)
           /\ Len(VisibleIds(last.after)) = Len(VisibleIds(last.before)) + 1
           /\ RemoveAt(VisibleIds(last.after), last.pos)
                  = VisibleIds(last.before)

\* Insert(2, v) on a replica that holds two characters, at least one of
\* them visible.
C4_Witness ==
    /\ last.op = "Insert"
    /\ last.pos = 2
    /\ Len(Content(last.before)) >= 1
    /\ Len(last.before) = 4
    /\ last.text = InsertAt(Content(last.before), 2, last.value)

\* C5: Insert(position, value) returns PositionOutOfBounds exactly when
\* position <= 0 or position > visible length + 1, and then leaves the
\* characters of the replica as they were.
C5_InsertOutOfBounds ==
    last.op = "Insert"
        => /\ (last.err = ErrPositionOutOfBounds)
                  <=> (\/ last.pos <= 0
                       \/ last.pos > Len(VisibleIdx(last.before)) + 1)
           /\ last.err # ErrNil => last.after = last.before

\* C6: New() is [start, end]; whatever Insert, Delete, IntegrateInsert and
\* IntegrateDelete are called with afterwards (LocalInsert was not called on
\* its own) the replica begins with start and ends with end, holds each
\* once, both invisible.
C6_Sentinels ==
    LET d == doc[R]
    IN  /\ last.op = "New"
            => /\ d = <<CharacterStart, CharacterEnd>>
               /\ Length(d) = 2
               /\ Content(d) = << >>
        /\ hist.direct = 0
            => /\ Len(d) >= 2
               /\ d[1].ID = IdStart /\ ~d[1].Visible
               /\ d[Len(d)].ID = IdEnd /\ ~d[Len(d)].Visible
               /\ \A i \in 1..Len(d) :
                     /\ d[i].ID = IdStart => i = 1
                     /\ d[i].ID = IdEnd => i = Len(d)

\* C9: Delete(position) with position outside [1, visible length] returns
\* the text as it was and changes no character.
C9_DeleteOutOfRange ==
    (/\ last.op = "Delete"
     /\ (last.pos < 1 \/ last.pos > Len(VisibleIdx(last.before))))
        => /\ last.after = last.before
           /\ last.text = Content(last.before)

\* Delete(0) on a replica that shows text.
C9_Witness ==
    /\ last.op = "Delete"
    /\ last.pos = 0
    /\ Len(Content(last.before)) > 0
    /\ last.text = Content(last.before)

\* C10: IntegrateDelete of an ID the replica does not hold, or of a
\* tombstone, changes nothing; a second IntegrateDelete of the same ID
\* changes nothing either.
C10_IntegrateDeleteIdempotent ==
    last.op = "IntegrateDelete"
        => /\ (\/ ~Contains(last.before, last.char.ID)
               \/ ~Find(last.before, last.char.ID).Visible)
                  => last.after = last.before
           /\ IntegrateDelete(last.after, last.char) = last.after

\* IntegrateDelete of a character that is a tombstone already.
C10_Witness ==
    /\ last.op = "IntegrateDelete"
    /\ Contains(last.before, last.char.ID)
    /\ last.char.ID \notin {IdStart, IdEnd}
    /\ ~Find(last.before, last.char.ID).Visible
    /\ last.after = last.before

(***************************************************************************)
(* A long session (SpecSites): the server has accepted eleven connections. *)
(* The clients of the sites 2 to 10 came and left before anything was      *)
(* typed; the client of site 1 has typed eleven runes at the end of its    *)
(* text; then the eleventh connection was made and its client, in the      *)
(* second slot, was handed its site ID, the snapshot of site 1 and the     *)
(* users lists.  The run starts there, with nothing in flight: the         *)
(* newcomer edits the text.                                                *)
(***************************************************************************)

\* The ID of the k-th character minted at site 1.
SiteOneId(k) == Sprint(1) \o Sprint(k)

\* The replica of site 1 after MaxSitesTyped runes typed at the end.
SitesDoc ==
    [i \in 1..(MaxSitesTyped + 2) |->
        IF i = 1
          THEN Character(IdStart, FALSE, "", IdEmpty, SiteOneId(1))
        ELSE IF i = MaxSitesTyped + 2
          THEN Character(IdEnd, FALSE, "", SiteOneId(MaxSitesTyped), IdEmpty)
        ELSE Character(SiteOneId(i - 1), TRUE, "a",
                       IF i = 2 THEN IdStart ELSE SiteOneId(i - 2),
                       IF i = MaxSitesTyped + 1 THEN IdEnd
                       ELSE SiteOneId(i))]

InitSites ==
    LET sync == Message("docSync", IdEmpty, MaxSitesAccepted, IdEmpty,
                        NoOperation, SitesDoc)
        names == NameOf(2) \o <<44>> \o NameOf(1) \o <<44>>
    IN  /\ proc = [c \in Clients |-> IF c <= 2 THEN "running" ELSE "off"]
        /\ doc = [c \in Clients |-> IF c <= 2 THEN SitesDoc ELSE New]
        /\ SiteID = [c \in Clients |->
                       IF c = 1 THEN 1
                       ELSE IF c = 2 THEN MaxSitesAccepted ELSE 0]
        /\ LocalClock = [c \in Clients |-> IF c = 1 THEN MaxSitesTyped ELSE 0]
        /\ Cursor = [c \in Clients |-> IF c = 1 THEN MaxSitesTyped ELSE 0]
        /\ toServer = [c \in Clients |-> << >>]
        /\ toClient = [c \in Clients |-> << >>]
        /\ siteID = MaxSitesAccepted
        /\ list = [c \in 1..2 |->
                     IF c = 1
                       THEN [id |-> 1, SiteID |-> Sprint(1),
                             Username |-> NameOf(1)]
                     ELSE [id |-> MaxSitesAccepted,
                           SiteID |-> Sprint(MaxSitesAccepted),
                           Username |-> NameOf(2)]]
        /\ messageChan = << >>
        /\ syncChan = << >>
        /\ srvPanic = FALSE
        /\ reader = [c \in Clients |-> c <= 2]
        /\ stuck = NoStuck
        /\ conn = [NoConn EXCEPT
                     !.go.g[1] = [Parked(1) EXCEPT !.pc = "read", !.id = 1],
                     !.go.g[2] = [Parked(2) EXCEPT !.pc = "read",
                                                   !.id = MaxSitesAccepted],
                     !.go.heap = [u \in 1..MaxSitesAccepted |->
                                     [slot |-> IF u = 1 THEN 1 ELSE 2,
                                      SiteID |-> Sprint(u),
                                      Username |-> IF u = 1 THEN NameOf(1)
                                                   ELSE NameOf(2)]],
                     !.go.closed = 2..(MaxSitesAccepted - 1)]
        /\ hist = [NoHist EXCEPT
                     !.users = [c \in Clients |->
                                   IF c <= 2 THEN names ELSE << >>],
                     !.wrote = [NoWrote EXCEPT
                                  !.msg = sync,
                                  !.table = {1, MaxSitesAccepted},
                                  !.targets = {2}, !.written = {2},
                                  !.ids = {MaxSitesAccepted}],
                     !.synced = [NoSynced EXCEPT
                                   !.id = MaxSitesAccepted, !.who = 2,
                                   !.to = MaxSitesAccepted,
                                   !.installed = SitesDoc, !.known = TRUE,
                                   !.answered = SitesDoc],
                     !.shown = [c \in Clients |->
                                   IF c <= 2
                                     THEN [i \in 1..MaxSitesTyped |-> "a"]
                                   ELSE << >>],
                     !.boot[2] = [NoBoot EXCEPT !.by = 1, !.done = TRUE]]
        /\ typed = 0
        /\ early = FALSE
        /\ last = NoLast
        /\ pair = NoPair
        /\ e = NoEditor

\* The client of site 1 has typed its text and presses no key any more: the
\* keys of the run are those of the newcomer.  Nobody connects and nobody
\* leaves.
Newcomers == {2}

NextSites ==
    \/ \E g \in Serving : getAll(g)
    \/ \E g \in Serving : send(g)
    \/ \E c \in Clients : ServerRead(c)
    \/ \E c \in Clients : chanSend(c)
    \/ HandleMsg
    \/ \E c \in Clients : ClientHandleMsg(c)
    \/ \E c \in Newcomers : typed < MaxSitesEdits /\ KeyRune(c, "a")
    \/ \E c \in Newcomers : typed < MaxSitesEdits /\ KeyBackspace(c)
    \/ \E c \in Newcomers : KeyEnd(c)

SpecSites == InitSites /\ [][NextSites]_vars

\* C7: in every replica, also one taken from a docSync snapshot minted at
\* another site, the IDs of the characters other than the sentinels are
\* pairwise distinct.
C7_UniqueIds ==
    \A c \in Clients :
        \A i, j \in 2..(Len(doc[c]) - 1) :
            doc[c][i].ID = doc[c][j].ID => i = j

\* C8: Delete(p) with 1 <= p <= visible length clears the visible flag of
\* the p-th visible character and changes nothing else, so that the visible
\* length decreases by one.
C8_DeleteFlipsOne ==
    (/\ last.op = "Delete"
     /\ last.pos >= 1
     /\ last.pos <= Len(VisibleIdx(last.before)))
        => /\ last.after = [last.before EXCEPT
                               ![VisibleIdx(last.before)[last.pos]].Visible = FALSE]
           /\ Len(VisibleIdx(last.after)) = Len(VisibleIdx(last.before)) - 1

(***************************************************************************)
(* Integration with bad arguments (SpecCrdt)                               *)
(***************************************************************************)

\* C11: IntegrateInsert(char, prev, next) with prev or next not in the
\* replica leaves the replica exactly as it was.
C11_MissingNeighbourDropped ==
    (/\ last.op = "IntegrateInsert"
     /\ (\/ ~Contains(last.before, last.prev.ID)
         \/ ~Contains(last.before, last.next.ID)))
        => last.after = last.before

\* C12: no call of the CRDT interface panics, whatever its arguments.
C12_NoPanic ==
    /\ last.op \in {"Insert", "Delete", "IntegrateInsert", "IntegrateDelete",
                    "Left", "Right"}
          => ~last.panic
    /\ proc[R] # "crashed"

(***************************************************************************)
(* The server's relay                                                      *)
(***************************************************************************)

\* C13: an operation read from a client is written to every client that was
\* in the table when the broadcast took its snapshot, except the one whose
\* uuid the message carries, and it is an operation some client typed; the
\* relay does not stop for ever with a connected client of its snapshot still
\* to be written to.
C13_RelayToOthers ==
    /\ hist.wrote.msg.Type = "operation"
          => /\ hist.wrote.ids = hist.wrote.table \ {hist.wrote.msg.ID}
             /\ hist.wrote.written \cup Range(hist.wrote.failed)
                    = hist.wrote.targets
             /\ hist.wrote.msg.Operation \in hist.sent
    /\ Fr(MsgG).job = "relay"
          => /\ Fr(MsgG).msg.Operation \in hist.sent
             /\ Fr(MsgG).msg.ID \notin Fr(MsgG).snap
             /\ ~(/\ \/ (Fr(MsgG).pc = "usersSend"
                           /\ Fr(SyncG).pc = "usersSend")
                      \/ (Fr(MsgG).pc = "delete" /\ stuck.table)
                   /\ \E u \in Fr(MsgG).snap : proc[SlotOf(u)] = "running")

\* C14: a docSync read by the server keeps the id and the document its
\* sender gave it, goes to handleSync and never to handleMsg, and is written
\* to the one client whose uuid is that id and to no other.
C14_DocSyncToAddressee ==
    /\ \A i \in 1..Len(messageChan) : messageChan[i].Type # "docSync"
    /\ \A i \in 1..Len(syncChan) :
          syncChan[i].Type = "docSync"
             => [id |-> syncChan[i].ID, doc |-> syncChan[i].Document]
                    \in hist.answered
    /\ (hist.wrote.msg.Type = "docSync" /\ ~hist.wrote.nobody)
          => /\ hist.wrote.ids = {hist.wrote.msg.ID}
             /\ Cardinality(hist.wrote.targets) = 1
             /\ hist.wrote.written \subseteq hist.wrote.targets
    /\ \A d \in Clients : \A i \in 1..Len(toClient[d]) :
          (proc[d] = "running" /\ toClient[d][i].Type = "docSync")
             => /\ d \in DOMAIN list
                /\ list[d].id = toClient[d][i].ID
                /\ [id |-> toClient[d][i].ID, doc |-> toClient[d][i].Document]
                       \in hist.answered

\* A docSync was written to its addressee while another client was connected.
C14_Witness ==
    /\ hist.wrote.msg.Type = "docSync"
    /\ hist.wrote.written # {}
    /\ Cardinality(hist.wrote.table) >= 2
    /\ \E d \in hist.wrote.written :
          /\ proc[d] = "running"
          /\ toClient[d] # << >>
          /\ Head(toClient[d]) = hist.wrote.msg

\* A state the session of SpecLive reaches: the second client left after it
\* had handled its SiteID; the write of the docSync for it failed, and inside
\* the clients.delete of that broadcastOne handleSync waits in sendUsernames
\* with the users list on syncChan.  The join of the second client is still
\* to be read.
ServerStuck ==
    /\ proc = [c \in Clients |->
                 IF c = 1 THEN "running" ELSE IF c = 2 THEN "exited" ELSE "off"]
    /\ SiteID = [c \in Clients |-> IF c <= 2 THEN c ELSE 0]
    /\ toServer = [c \in Clients |->
                     IF c = 2
                       THEN <<Message("join", JoinText, NilUUID, NameOf(2),
                                      NoOperation, NilDocument)>>
                     ELSE << >>]
    /\ toClient = [c \in Clients |-> << >>]
    /\ siteID = 2
    /\ list = [c \in {1} |->
                 [id |-> 1, SiteID |-> Sprint(1), Username |-> NameOf(1)]]
    /\ messageChan = << >>
    /\ syncChan = <<Message("users", NameOf(1) \o <<44>>, NilUUID, IdEmpty,
                            NoOperation, NilDocument)>>
    /\ srvPanic = FALSE
    /\ reader = [c \in Clients |-> c <= 2]
    /\ stuck = NoStuck
    /\ conn = [NoConn EXCEPT
                 !.go.g = [g \in Serving |->
                              IF g \in 1..2
                                THEN [Parked(g) EXCEPT !.pc = "read", !.id = g]
                              ELSE IF g = SyncG
                                THEN [Parked(g) EXCEPT
                                        !.pc = "usersSend", !.job = "one",
                                        !.msg = Message("docSync", IdEmpty, 2,
                                                        IdEmpty, NoOperation,
                                                        New),
                                        !.nested = TRUE,
                                        !.run = [table |-> {1, 2},
                                                 targets |-> {2},
                                                 written |-> {},
                                                 failed |-> <<2>>]]
                              ELSE Parked(g)],
                 !.go.heap = <<[slot |-> 1, SiteID |-> Sprint(1),
                                Username |-> NameOf(1)],
                               [slot |-> 2, SiteID |-> Sprint(2),
                                Username |-> IdEmpty]>>,
                 !.go.closed = {2},
                 !.go.sendq.sync = <<SyncG>>]

InitJoin ==
    /\ ServerStuck
    /\ doc = [c \in Clients |-> New]
    /\ LocalClock = [c \in Clients |-> 0]
    /\ Cursor = [c \in Clients |-> 0]
    /\ NoPast

\* A client joins a session whose handleSync waits for ever (SpecJoin): the
\* server finds out that the second client is gone, a third client connects,
\* and a client types a rune, in any order.  handleSync receives nothing any
\* more, so that no sendUsernames returns: no handleConn reaches its read
\* loop and no join is handled.
NextJoin ==
    \/ \E c \in Clients :
          /\ siteID < 2 + MaxJoinSites
          /\ LowestFree(c) /\ Accept(c, New, NameOf(c))
    \/ \E c \in Clients : add(c)
    \/ \E g \in Serving : get(g)
    \/ \E g \in Serving : getAll(g)
    \/ \E g \in Serving : send(g)
    \/ \E g \in Serving : usersGetAll(g)
    \/ \E g \in Serving : sendUsernames(g)
    \/ \E c \in Clients : ServerRead(c)
    \/ \E c \in Clients : chanSend(c)
    \/ \E c \in Clients : ServerReadError(c)
    \/ HandleMsg
    \/ \E c \in Clients : ClientHandleMsg(c)
    \/ \E c \in Clients : typed < MaxJoinTyped /\ KeyRune(c, "a")

SpecJoin == InitJoin /\ [][NextJoin]_vars

\* The handleConn of connection j has not ended its broadcastOneExcept and
\* waits for ever: for the goroutine of the table, which waits for the lock
\* of the table, or in the sendUsernames of a clients.delete for handleSync,
\* which waits in a sendUsernames of its own.
AcceptStopped(j) ==
    /\ \/ Fr(j).pc = "add"
       \/ Fr(j).job \in {"siteID", "docReq"}
    /\ \/ (Fr(j).pc \in {"add", "get", "getAll", "delete", "usersGetAll"}
            /\ stuck.table)
       \/ (Fr(j).pc = "usersSend" /\ Fr(SyncG).pc = "usersSend")

\* C15: when a client is accepted, the docReq that carries its uuid is
\* written to at most one client and not to the new client; if some other
\* client of the table is connected, so that the write to it succeeds, it is
\* written to exactly one, and with no other client in the table it is not
\* written at all.  The accept does not stop for ever before the docReq is
\* written while another client of the table is connected.
C15_DocReqToOne ==
    /\ hist.wrote.msg.Type = "docReq"
          => /\ Cardinality(hist.wrote.written) <= 1
             /\ hist.wrote.written \subseteq hist.wrote.targets
             /\ hist.wrote.msg.ID \notin hist.wrote.ids
             /\ (\E d \in hist.wrote.targets : proc[d] = "running")
                   => Cardinality(hist.wrote.written) = 1
             /\ hist.wrote.targets = {} => hist.wrote.written = {}
    /\ \A j \in Clients :
          (AcceptStopped(j) /\ Fr(j).run.written = {})
             => ~\E d \in DOMAIN list : d # j /\ proc[d] = "running"

(***************************************************************************)
(* Concurrent accepts (SpecAccept): the handlers of net/http run           *)
(* handleConn concurrently; each takes mu, increments siteID, reads it     *)
(* into its client and releases mu (server/main.go:112-121).               *)
(***************************************************************************)

\* A mutex that excludes nobody.
MutexFree_Always(holder) == TRUE

\* mu.Lock() returns only while nobody holds mu.
MutexFree(holder) == holder = 0

\* mu.Lock()
ConnLock(c) ==
    /\ conn.pc[c] = "idle"
    /\ siteID < MaxAcceptSites
    /\ MutexFree(conn.holder)
    /\ conn' = [conn EXCEPT !.pc[c] = "locked", !.holder = c]
    /\ UNCHANGED <<clientVars, toServer, toClient, siteID, list, messageChan,
                   syncChan, srvPanic, reader, stuck, hist, typed, early,
                   last, pair, e>>

\* siteID++
ConnIncrement(c) ==
    /\ conn.pc[c] = "locked"
    /\ siteID' = siteID + 1
    /\ conn' = [conn EXCEPT !.pc[c] = "incremented"]
    /\ UNCHANGED <<clientVars, toServer, toClient, list, messageChan, syncChan,
                   srvPanic, reader, stuck, hist, typed, early, last, pair, e>>

\* SiteID: strconv.Itoa(siteID)
ConnRead(c) ==
    /\ conn.pc[c] = "incremented"
    /\ conn' = [conn EXCEPT !.pc[c] = "read",
                            !.SiteID[c] = Sprint(siteID),
                            !.log = Append(@, Sprint(siteID))]
    /\ UNCHANGED <<clientVars, toServer, toClient, siteID, list, messageChan,
                   syncChan, srvPanic, reader, stuck, hist, typed, early,
                   last, pair, e>>

\* mu.Unlock(); the handler goes on and the slot can take a new connection.
ConnUnlock(c) ==
    /\ conn.pc[c] = "read"
    /\ conn' = [conn EXCEPT !.pc[c] = "idle", !.holder = 0]
    /\ UNCHANGED <<clientVars, toServer, toClient, siteID, list, messageChan,
                   syncChan, srvPanic, reader, stuck, hist, typed, early,
                   last, pair, e>>

NextAccept ==
    \/ \E c \in Clients : ConnLock(c)
    \/ \E c \in Clients : ConnIncrement(c)
    \/ \E c \in Clients : ConnRead(c)
    \/ \E c \in Clients : ConnUnlock(c)

SpecAccept == Init /\ [][NextAccept]_vars

\* C16: under any interleaving of the handlers, the site IDs given to the
\* accepted clients are all different and each is larger than the ones given
\* before it.
C16_DistinctSiteIDs ==
    \A i, j \in 1..Len(conn.log) :
        i < j => /\ conn.log[i] # conn.log[j]
                 /\ Atoi(conn.log[i]) < Atoi(conn.log[j])

\* Two handlers were given their site IDs and another one holds mu.
C16_Witness ==
    /\ Len(conn.log) >= 2
    /\ \E c, d \in Clients :
          /\ c # d
          /\ conn.pc[c] = "idle" /\ conn.SiteID[c] # IdEmpty
          /\ conn.pc[d] \in {"locked", "incremented", "read"}

(***************************************************************************)
(* Write failures and departures                                           *)
(***************************************************************************)

\* C17: when a write to a client fails during a broadcast, that client is
\* removed from the table, the broadcast goes on to write to every other
\* client it was meant for, and the server goes on serving: the goroutine
\* whose write failed does not wait for ever, neither with its message on
\* syncChan, which only handleSync receives from, nor for the goroutine of the
\* table.
C17_WriteFailureEvicts ==
    /\ (hist.wrote.failed # << >> /\ hist.wrote.msg.Type # "docReq")
          => /\ \A d \in Range(hist.wrote.failed) :
                   d \in DOMAIN list => list[d].id \notin hist.wrote.ids
             /\ hist.wrote.written \cup Range(hist.wrote.failed)
                    = hist.wrote.targets
    /\ \A g \in Serving :
          Fr(g).run.failed # << >>
             => /\ \A u \in Range(Fr(g).run.failed) :
                      \/ Fr(g).pc = "delete" /\ Fr(g).cur = u
                      \/ u \notin Ids(list)
                /\ ~(g = SyncG /\ Fr(g).pc = "usersSend")
                /\ ~stuck.table

\* C18: a docSync whose id is the uuid of no client in the table is written
\* to nobody and leaves the server running.
C18_UnknownDocSyncDiscarded ==
    (hist.wrote.msg.Type = "docSync" /\ hist.wrote.ids = {})
        => /\ hist.wrote.written = {}
           /\ ~srvPanic

(***************************************************************************)
(* Departures under fair scheduling (SpecLive)                             *)
(***************************************************************************)

\* The connections the server accepts in SpecLive after the first.
MaxLiveSites == 1

\* The client processes of SpecLive that have ended, at any one time.
MaxLiveGone == 1

\* A session of one client: another one connects, and one of the two leaves
\* at any time, or none; nobody types.
NextLive ==
    \/ \E c \in Clients : /\ siteID < 1 + MaxLiveSites
                          /\ LowestFree(c) /\ Accept(c, New, NameOf(c))
    \/ \E c \in Clients : add(c)
    \/ \E g \in Serving : get(g)
    \/ \E g \in Serving : getAll(g)
    \/ \E g \in Serving : send(g)
    \/ \E g \in Serving : delete(g)
    \/ \E g \in Serving : usersGetAll(g)
    \/ \E g \in Serving : sendUsernames(g)
    \/ \E c \in Clients : ServerRead(c)
    \/ \E c \in Clients : chanSend(c)
    \/ \E c \in Clients : ServerReadError(c)
    \/ HandleMsg
    \/ updateName
    \/ HandleSync
    \/ \E c \in Clients : ClientHandleMsg(c)
    \/ \E c \in Clients : Cardinality(Gone) < MaxLiveGone /\ KeyEsc(c)

\* The goroutines of the server (main.go:75-81 and one handleConn for each
\* connection) and the read loop of every client run whenever they can;
\* nothing makes a client connect or leave.
SpecLive ==
    /\ InitOne
    /\ [][NextLive]_vars
    /\ WF_vars(HandleMsg)
    /\ WF_vars(updateName)
    /\ WF_vars(HandleSync)
    /\ \A g \in Serving : /\ WF_vars(get(g))
                          /\ WF_vars(getAll(g))
                          /\ WF_vars(send(g))
                          /\ WF_vars(delete(g))
                          /\ WF_vars(usersGetAll(g))
                          /\ WF_vars(sendUsernames(g))
    /\ \A c \in Clients : /\ WF_vars(add(c))
                          /\ WF_vars(ServerRead(c))
                          /\ WF_vars(chanSend(c))
                          /\ WF_vars(ServerReadError(c))
                          /\ WF_vars(ClientHandleMsg(c))

\* The users list text names client c.
Listed(c, text) == \E i \in 1..Len(text) : text[i] = NameOf(c)[1]

\* The read of the connection of c returns an error: its handler is at
\* client.read, and the peer is gone with all its frames read or the server
\* has closed the connection.
ReadFails(c) ==
    /\ ~srvPanic
    /\ reader[c]
    /\ Fr(c).pc = "read"
    /\ \/ Fr(c).id \in Go.closed
       \/ proc[c] # "running" /\ toServer[c] = << >>

\* c is out of the table, its socket is closed (by clients.close or by the
\* return of its handler), and every client still connected has been written
\* a users list, the last of which does not name c.
CleanedUp(c) ==
    /\ c \notin DOMAIN list
    /\ ~reader[c] \/ Fr(c).id \in Go.closed
    /\ \A d \in DOMAIN list :
          proc[d] = "running"
              => hist.users[d] # << >> /\ ~Listed(c, hist.users[d])

\* C19: when the read of a client's connection fails, the client is
\* eventually out of the client table with its socket closed, and the
\* clients still connected are eventually sent a users list without it,
\* unless the server process has ended meanwhile (which ends every
\* connection).
C19_DisconnectCleansUp ==
    \A c \in Clients : ReadFails(c) ~> (CleanedUp(c) \/ srvPanic)

(***************************************************************************)
(* Joining a session that has a document (SpecSync)                        *)
(***************************************************************************)

\* The connections the server accepts in SpecSync after the first.
MaxSyncSites == 1

\* Editing keystrokes of the clients of SpecSync.
MaxSyncTyped == 1

\* A session of one client: another one, whose user gives the same name,
\* connects and no user leaves; the clients type and delete at any time.
NextSync ==
    \/ \E c \in Clients : /\ siteID < 1 + MaxSyncSites
                          /\ LowestFree(c) /\ Accept(c, New, NameOf(1))
    \/ \E c \in Clients : add(c)
    \/ \E g \in Serving : get(g)
    \/ \E g \in Serving : getAll(g)
    \/ \E g \in Serving : send(g)
    \/ \E g \in Serving : usersGetAll(g)
    \/ \E g \in Serving : sendUsernames(g)
    \/ \E c \in Clients : ServerRead(c)
    \/ \E c \in Clients : chanSend(c)
    \/ HandleMsg
    \/ updateName
    \/ HandleSync
    \/ \E c \in Clients : ClientHandleMsg(c)
    \/ \E c \in Clients : typed < MaxSyncTyped /\ KeyRune(c, "a")
    \/ \E c \in Clients : typed < MaxSyncTyped /\ KeyBackspace(c)

\* The replica of client 1 once it has typed "a" and "b" and pressed
\* Backspace: "a" is visible and "b" is a tombstone.
TypedDoc ==
    <<Character(IdStart, FALSE, "", IdEmpty, <<49, 49>>),
      Character(<<49, 49>>, TRUE, "a", IdStart, <<49, 50>>),
      Character(<<49, 50>>, FALSE, "b", <<49, 49>>, IdEnd),
      Character(IdEnd, FALSE, "", <<49, 50>>, IdEmpty)>>

\* TypedDoc is what Insert and Delete make of these keys at site 1.
TypedDocIsTyped ==
    LET a == Insert(New, 1, 0, 1, "a")
        b == Insert(a.doc, 1, a.clock, 2, "b")
    IN  /\ b.clock = 2
        /\ TypedDoc = Delete(b.doc, 2).doc

\* A session of one client, who has typed "a", "b" and Backspace; the server
\* has read the three operations and had nobody to relay them to.
InitSync ==
    /\ ServerSettled(1)
    /\ doc = [c \in Clients |-> IF c = 1 THEN TypedDoc ELSE New]
    /\ LocalClock = [c \in Clients |-> IF c = 1 THEN 2 ELSE 0]
    /\ Cursor = [c \in Clients |-> IF c = 1 THEN 1 ELSE 0]
    /\ hist = [NoHist EXCEPT !.shown[1] = <<"a">>]
    /\ typed = 0
    /\ early = FALSE
    /\ last = NoLast
    /\ pair = NoPair
    /\ e = NoEditor

SpecSync == InitSync /\ [][NextSync]_vars

\* Keys pressed in SpecStart.
MaxStartTyped == 1

\* The document of the file the second client of SpecStart is started with.
FileDocs == LoadedDocs \ {New}

\* A session of one client with an empty document: a second client process
\* starts with the document of its file; the users type and save at any
\* time, and the saves succeed (SpecFile has those that fail), so that
\* nobody leaves.
NextStart ==
    \/ \E c \in Clients, d \in FileDocs :
          siteID < 2 /\ LowestFree(c) /\ Accept(c, d, NameOf(c))
    \/ \E c \in Clients : add(c)
    \/ \E g \in Serving : get(g)
    \/ \E g \in Serving : getAll(g)
    \/ \E g \in Serving : send(g)
    \/ \E g \in Serving : usersGetAll(g)
    \/ \E g \in Serving : sendUsernames(g)
    \/ \E c \in Clients : ServerRead(c)
    \/ \E c \in Clients : chanSend(c)
    \/ HandleMsg
    \/ updateName
    \/ HandleSync
    \/ \E c \in Clients : ClientHandleMsg(c)
    \/ \E c \in Clients : typed < MaxStartTyped /\ KeyRune(c, "a")
    \/ \E c \in Clients, named \in BOOLEAN :
          typed < MaxStartTyped /\ KeyCtrlS(c, named, FALSE)

SpecStart == InitOne /\ [][NextStart]_vars

\* The SiteID frame of the connection with uuid id has been written to the
\* client in slot j.
SiteIDSent(j, id) ==
    \/ SiteID[j] = Atoi(Go.heap[id].SiteID)
    \/ \E k \in 1..Len(toClient[j]) :
          /\ toClient[j][k].Type = "SiteID"
          /\ toClient[j][k].ID = id
          /\ toClient[j][k].Text = Go.heap[id].SiteID

\* C20: a client that joins is sent its SiteID, and after that the docReq
\* that carries its uuid goes to another client; the docSync that answers a
\* docReq carries the uuid of the docReq and the whole document of the
\* client that answers; and the client that handles a docSync is the one it
\* is addressed to, whose replica becomes the document of the answering
\* client as it was when it answered: same characters, ids, order and visible
\* flags.
C20_JoinSync ==
    /\ \A c \in Clients : \A i \in 1..Len(toClient[c]) :
          (proc[c] = "running" /\ toClient[c][i].Type = "SiteID")
              => /\ toClient[c][i].ID = Fr(c).id
                 /\ toClient[c][i].Text = Go.heap[Fr(c).id].SiteID
    /\ \A c \in DOMAIN list : \A i \in 1..Len(toClient[c]) :
          (proc[c] = "running" /\ toClient[c][i].Type = "docReq")
              => /\ toClient[c][i].ID # list[c].id
                 /\ toClient[c][i].ID \in 1..siteID
                 /\ LET id == toClient[c][i].ID
                        j == SlotOf(id)
                    IN  (proc[j] = "running" /\ Fr(j).id = id)
                            => SiteIDSent(j, id)
    /\ \A c \in Clients : \A i \in 1..Len(toServer[c]) :
          toServer[c][i].Type = "docSync"
              => [id |-> toServer[c][i].ID, doc |-> toServer[c][i].Document]
                    \in hist.answered
    /\ hist.synced.who # 0
          => /\ hist.synced.known
             /\ hist.synced.id = hist.synced.to
             /\ hist.synced.installed = hist.synced.answered

\* A client that joined has installed a document with a typed character and
\* a tombstone, and still holds it.
C20_Witness ==
    /\ hist.synced.who # 0
    /\ hist.synced.known
    /\ Len(hist.synced.installed) > 2
    /\ \E i \in 1..Len(hist.synced.installed) :
          ~hist.synced.installed[i].Visible
    /\ doc[hist.synced.who] = hist.synced.installed

(***************************************************************************)
(* The client: snapshots, exits and key events                             *)
(***************************************************************************)

\* C21: when a client handles a docSync its replica becomes the received
\* document and its cursor is a valid position of the new visible text:
\* 0 <= Cursor <= length of the text.
C21_DocSyncResetsCursor ==
    [][\A c \in Clients :
          (/\ toClient[c] # << >>
           /\ Head(toClient[c]).Type = "docSync"
           /\ ClientHandleMsg(c))
              => /\ doc'[c] = Head(toClient[c]).Document
                 /\ 0 <= Cursor'[c]
                 /\ Cursor'[c] <= Len(Content(doc'[c]))]_vars

\* getMsgChan: conn.ReadJSON of client c fails, which ends the goroutine that
\* feeds msgChan.  It does once the server process is gone and every frame
\* written to c is consumed.
InboundEnded(c) ==
    /\ proc[c] = "running"
    /\ srvPanic
    /\ toClient[c] = << >>

\* C22: when the inbound read of a client fails, the client eventually
\* leaves Running: its main loop returns.
C22_ReadFailureExits ==
    \A c \in Clients : InboundEnded(c) ~> (proc[c] # "running")

\* A settled session whose clients save, load and type at any time
\* (SpecFile).
NextFile ==
    \/ \E c \in Clients, named, failed \in BOOLEAN :
          typed < MaxFileTyped /\ KeyCtrlS(c, named, failed)
    \/ \E c \in Clients, named, failed \in BOOLEAN, newDoc \in LoadedDocs :
          typed < MaxFileTyped /\ KeyCtrlL(c, named, failed, newDoc)
    \/ \E c \in Clients : typed < MaxFileTyped /\ KeyRune(c, "a")
    \/ \E c \in Clients : ServerRead(c)
    \/ \E c \in Clients : chanSend(c)
    \/ \E c \in Clients : ServerReadError(c)
    \/ \E g \in Serving : get(g)
    \/ \E g \in Serving : getAll(g)
    \/ \E g \in Serving : send(g)
    \/ \E g \in Serving : delete(g)
    \/ \E g \in Serving : usersGetAll(g)
    \/ \E g \in Serving : sendUsernames(g)
    \/ HandleMsg
    \/ HandleSync
    \/ \E c \in Clients : ClientHandleMsg(c)

SpecFile == InitEdit /\ [][NextFile]_vars

\* C23: a save or a load that fails leaves the client in Running with its
\* replica unchanged.
C23_FileFailureKeepsSession ==
    [][\A c \in Clients :
          (\/ KeyCtrlS(c, TRUE, TRUE)
           \/ \E newDoc \in LoadedDocs : KeyCtrlL(c, TRUE, TRUE, newDoc))
              => /\ proc'[c] = "running"
                 /\ doc'[c] = doc[c]]_vars

\* A settled session in which one key is pressed: a rune, Backspace or Tab
\* (SpecKeys), and the server relays its operations.  Nobody connects and
\* with one key nobody leaves, so no read of the server fails and no users
\* list is announced.
NextKeys ==
    \/ \E c \in Clients : ServerRead(c)
    \/ \E c \in Clients : chanSend(c)
    \/ HandleMsg
    \/ \E g \in Serving : getAll(g)
    \/ \E g \in Serving : send(g)
    \/ \E c \in Clients : ClientHandleMsg(c)
    \/ \E c \in Clients : typed < MaxKeysTyped /\ KeyRune(c, "a")
    \/ \E c \in Clients : typed < MaxKeysTyped /\ KeyBackspace(c)
    \/ \E c \in Clients : typed < MaxKeysTyped /\ KeyTab(c)

SpecKeys == InitEdit /\ [][NextKeys]_vars

\* C24 as stated: a key event makes at most one CRDT call and sends at most
\* one operation message.
C24_OneCallPerKey ==
    /\ hist.key.calls <= 1
    /\ hist.key.msgs <= 1

\* C24: a key event other than Tab makes at most one CRDT call and sends at
\* most one operation message; Tab makes at most four calls, one for each of
\* its spaces, and sends one message for each call that returned.
C24_OneCallPerRune ==
    /\ hist.key.kind # "tab" => hist.key.calls <= 1
    /\ hist.key.kind = "tab" => hist.key.calls <= 4
    /\ hist.key.msgs <= hist.key.calls
    /\ hist.key.calls - hist.key.msgs <= 1

\* Tab has inserted and sent its four spaces.
C24_Witness ==
    /\ hist.key.kind = "tab"
    /\ hist.key.calls = 4
    /\ hist.key.msgs = 4
    /\ \E c \in Clients :
          /\ Len(toServer[c]) >= 4
          /\ Len(Content(doc[c])) >= 4

(***************************************************************************)
(* Integration between neighbours (SpecCrdt)                               *)
(***************************************************************************)

\* C25: IntegrateInsert(char, prev, next) with next right after prev in the
\* replica puts char between them as it was given, sets prev.IDNext and
\* next.IDPrevious to char.ID, changes no other character and returns no
\* error.
C25_IntegrateBetween ==
    (/\ last.op = "IntegrateInsert"
     /\ Contains(last.before, last.prev.ID)
     /\ Contains(last.before, last.next.ID)
     /\ Position(last.before, last.next.ID)
           = Position(last.before, last.prev.ID) + 1)
        => LET p == Position(last.before, last.next.ID)
           IN  /\ ~last.panic
               /\ last.err = ErrNil
               /\ Len(last.after) = Len(last.before) + 1
               /\ last.after[p] = last.char
               /\ last.after[p - 1]
                     = [last.before[p - 1] EXCEPT !.IDNext = last.char.ID]
               /\ last.after[p + 1]
                     = [last.before[p] EXCEPT !.IDPrevious = last.char.ID]
               /\ \A i \in 1..Len(last.before) :
                     /\ i < p - 1 => last.after[i] = last.before[i]
                     /\ i > p => last.after[i + 1] = last.before[i]

\* A character was integrated between two typed characters that were
\* neighbours.
C25_Witness ==
    /\ last.op = "IntegrateInsert"
    /\ Contains(last.before, last.prev.ID)
    /\ Contains(last.before, last.next.ID)
    /\ Position(last.before, last.next.ID)
          = Position(last.before, last.prev.ID) + 1
    /\ last.prev.ID # IdStart
    /\ last.next.ID # IdEnd
    /\ Contains(last.after, last.char.ID)
    /\ Len(last.after) = Len(last.before) + 1

(***************************************************************************)
(* The editor alone (SpecEditor): the cursor and the window                *)
(*                                                                         *)
(* One editor as initUI leaves it (ui.go:24-25: NewEditor, SetSize) with   *)
(* a text and a cursor inside it, driven by the calls the client makes:    *)
(* MoveCursor for the arrow keys (engine.go:58-65), SetX for Home and End  *)
(* (66-69), AddRune for every rune typed (114) and SetText after every     *)
(* operation (121, 133, 202).  The runes are a letter and the newline.  A  *)
(* panic ends the process.                                                 *)
(***************************************************************************)

EditorRunes == {"a", NewLine}

RECURSIVE TextsOf(_)
TextsOf(n) ==
    IF n = 0 THEN {<< >>}
    ELSE LET shorter == TextsOf(n - 1)
         IN  shorter \cup {Append(t, r) : t \in shorter, r \in EditorRunes}

Texts == TextsOf(MaxText)

\* The increments of the cursor: the keys move by one, the tests by more.
Increments == -2..2

editorFrame == <<clientVars, toServer, toClient, serverVars, typed, early,
                 last, pair>>

InitEditor ==
    /\ Settled
    /\ hist = NoHist
    /\ typed = 0
    /\ early = FALSE
    /\ last = NoLast
    /\ pair = NoPair
    /\ \E text \in Texts, cursor \in 0..MaxText, scroll \in BOOLEAN :
          /\ cursor <= Len(text)
          /\ e = [Text |-> text, Cursor |-> cursor, Width |-> EdWidth,
                  Height |-> EdHeight, ColOff |-> 0, RowOff |-> 0,
                  ScrollEnabled |-> scroll]

\* e.MoveCursor(x, y)
EdMoveCursor(x, y) ==
    /\ ~hist.move.panic
    /\ LET res == EditorMoveCursor(e, x, y)
       IN  /\ e' = res.ed
           /\ hist' = [hist EXCEPT !.move = [op |-> "MoveCursor", x |-> x,
                                             y |-> y, before |-> e,
                                             panic |-> res.panic]]
    /\ UNCHANGED editorFrame

\* e.SetX(x): editor.go:73-75
EdSetX(x) ==
    /\ ~hist.move.panic
    /\ e' = [e EXCEPT !.Cursor = x]
    /\ hist' = [hist EXCEPT !.move = [op |-> "SetX", x |-> x, y |-> 0,
                                      before |-> e, panic |-> FALSE]]
    /\ UNCHANGED editorFrame

\* e.SetText(text): editor.go:61-63; the cursor stays where it was
EdSetText(text) ==
    /\ ~hist.move.panic
    /\ text # e.Text
    /\ e' = [e EXCEPT !.Text = text]
    /\ hist' = [hist EXCEPT !.move = [op |-> "SetText", x |-> 0, y |-> 0,
                                      before |-> e, panic |-> FALSE]]
    /\ UNCHANGED editorFrame

\* k zero runes.
Nuls(k) == [i \in 1..k |-> NulRune]

\* e.AddRune(r): the rune goes in at the cursor and the cursor moves on by
\* the MoveCursor(1, 0) of the same file (unnamed/part_009:124-134).  With the cursor beyond the text, e.Text[:e.Cursor]
\* reaches into the capacity of the slice, where the runes are zero, or
\* panics when the capacity is smaller, as the allocator decided.
EdAddRune(r) ==
    /\ ~hist.move.panic
    /\ Len(e.Text) < MaxText /\ e.Cursor < MaxText
    /\ \E panic \in IF e.Cursor > Len(e.Text) THEN BOOLEAN ELSE {FALSE} :
          LET text == IF e.Cursor = 0 THEN <<r>> \o e.Text
                      ELSE IF e.Cursor < Len(e.Text)
                        THEN SubSeq(e.Text, 1, e.Cursor) \o <<r>>
                                 \o SubSeq(e.Text, e.Cursor + 1, Len(e.Text))
                      ELSE e.Text \o Nuls(e.Cursor - Len(e.Text)) \o <<r>>
              res == AddRuneMoveCursor([e EXCEPT !.Text = text], 1, 0)
          IN  /\ e' = IF panic THEN e ELSE res.ed
              /\ hist' = [hist EXCEPT !.move = [op |-> "AddRune", x |-> 1,
                                                y |-> 0, before |-> e,
                                                panic |-> panic \/ res.panic]]
    /\ UNCHANGED editorFrame

NextEditor ==
    \/ \E r \in EditorRunes : EdAddRune(r)
    \/ \E x \in Increments : EdMoveCursor(x, 0)
    \/ EdMoveCursor(0, -1)
    \/ EdMoveCursor(0, 1)
    \/ EdSetX(0)
    \/ EdSetX(Len(e.Text))
    \/ \E text \in Texts : EdSetText(text)

SpecEditor == InitEditor /\ [][NextEditor]_vars

\* The last call was MoveCursor(x, y) on a cursor inside the text.
MovedInside ==
    /\ hist.move.op = "MoveCursor"
    /\ 0 <= hist.move.before.Cursor
    /\ hist.move.before.Cursor <= Len(hist.move.before.Text)

\* C26: MoveCursor(x, 0) on a cursor inside the text sets the cursor to
\* cursor + x, reset to 0 when below and to the length of the text when
\* above; on an empty text the cursor stays at 0; the call does not panic
\* and changes neither the text nor the size of the window.
C26_HorizontalMove ==
    (MovedInside /\ hist.move.y = 0)
        => LET before == hist.move.before
               len == Len(before.Text)
               sum == before.Cursor + hist.move.x
           IN  /\ ~hist.move.panic
               /\ e.Cursor = IF sum < 0 THEN 0
                             ELSE IF sum > len THEN len
                             ELSE sum
               /\ len = 0 => e.Cursor = 0
               /\ 0 <= e.Cursor /\ e.Cursor <= Len(e.Text)
               /\ e.Text = before.Text
               /\ e.Width = before.Width /\ e.Height = before.Height

\* Moves were reset at both bounds of a text that is not empty, and a move
\* was made on the empty text.
C26_Witness ==
    /\ MovedInside
    /\ hist.move.y = 0
    /\ hist.move.before.Cursor + hist.move.x < 0
    /\ Len(e.Text) > 0
    /\ e.Cursor = 0

\* The lines of a text, by cursor positions: a line starts at 0 or after a
\* newline and ends before a newline or at the end of the text.
Max(S) == CHOOSE n \in S : \A m \in S : m <= n
Min(S) == CHOOSE n \in S : \A m \in S : n <= m
LineStart(text, k) == Max({j \in 0..k : j = 0 \/ RuneAt(text, j - 1) = NewLine})
LineEnd(text, k) ==
    Min({j \in k..Len(text) : j = Len(text) \/ RuneAt(text, j) = NewLine})
Column(text, k) == k - LineStart(text, k)

\* The position on the line that starts at lineStart, in the column col or
\* at the end of the line when the line is shorter.
SameColumn(text, lineStart, col) ==
    LET lineEnd == LineEnd(text, lineStart)
    IN  IF col <= lineEnd - lineStart THEN lineStart + col ELSE lineEnd

OneLineUp(text, k) ==
    IF LineStart(text, k) = 0 THEN 0
    ELSE SameColumn(text, LineStart(text, LineStart(text, k) - 1),
                    Column(text, k))

OneLineDown(text, k) ==
    IF LineEnd(text, k) = Len(text) THEN Len(text)
    ELSE SameColumn(text, LineEnd(text, k) + 1, Column(text, k))

\* C27: MoveCursor(0, -1) and MoveCursor(0, 1) on a cursor inside the text
\* put the cursor in the same column of the previous and of the next line,
\* or at the end of that line when it is shorter; up from the first line the
\* cursor goes to 0 and down from the last line to the length of the text.
C27_VerticalMove ==
    (MovedInside /\ hist.move.y # 0)
        => LET before == hist.move.before
           IN  /\ ~hist.move.panic
               /\ hist.move.y < 0
                     => e.Cursor = OneLineUp(before.Text, before.Cursor)
               /\ hist.move.y > 0
                     => e.Cursor = OneLineDown(before.Text, before.Cursor)

\* The cursor went up to the end of a shorter line.
C27_Witness ==
    /\ MovedInside
    /\ hist.move.y < 0
    /\ ~hist.move.panic
    /\ LineStart(hist.move.before.Text, hist.move.before.Cursor) > 0
    /\ Column(e.Text, e.Cursor)
          < Column(hist.move.before.Text, hist.move.before.Cursor)
    /\ e.Cursor > 0

\* The cell of the cursor lies inside the window of the editor ed.
InWindow(ed) ==
    LET cell == calcCursorXY(ed.Text, ed.Cursor)
    IN  /\ ed.RowOff < cell.y
        /\ cell.y <= ed.RowOff + ed.Height - 1
        /\ ed.ColOff < cell.x
        /\ cell.x <= ed.ColOff + ed.Width

\* The offset off kept a cell at coordinate z inside a window of size
\* cells, or moved there by the least amount: to the first cell when z was
\* before the window and to the last when it was after.
LeastScroll(before, after, z, size) ==
    /\ (before < z /\ z <= before + size) => after = before
    /\ z <= before => after = z - 1
    /\ z > before + size => after = z - size

\* C28: with scrolling enabled, after every MoveCursor that returns, the
\* cell of the cursor lies inside the window (RowOff < y <= RowOff + Height
\* - 1 and ColOff < x <= ColOff + Width), the offsets are not negative and
\* each changed by the least amount that brings the cell into the window.
C28_CursorInWindow ==
    (/\ hist.move.op = "MoveCursor"
     /\ ~hist.move.panic
     /\ e.ScrollEnabled)
        => LET before == hist.move.before
               cell == calcCursorXY(e.Text, e.Cursor)
           IN  /\ InWindow(e)
               /\ e.RowOff >= 0
               /\ e.ColOff >= 0
               /\ LeastScroll(before.RowOff, e.RowOff, cell.y, e.Height - 1)
               /\ LeastScroll(before.ColOff, e.ColOff, cell.x, e.Width)

(***************************************************************************)
(* The links of the characters and the end of the integration (SpecCrdt)   *)
(***************************************************************************)

\* C29: an insert (Insert or IntegrateInsert) that adds a character leaves
\* the IDPrevious and the IDNext of every character that was in the
\* document as they were.
C29_LinksAreIntent ==
    (/\ last.op \in {"Insert", "IntegrateInsert"}
     /\ ~last.panic
     /\ Len(last.after) = Len(last.before) + 1)
        => \A i \in 1..Len(last.before) :
              LET old == last.before[i]
                  new == Find(last.after, old.ID)
              IN  /\ new.IDPrevious = old.IDPrevious
                  /\ new.IDNext = old.IDNext

\* C30: every call of IntegrateInsert ends, with prev or next absent from
\* the document too: the recursion goes no deeper than the length of the
\* document (here it ends by returning or, for bounds in the wrong order,
\* by the panic of the slice expression in Subseq).
C30_IntegrateInsertEnds ==
    last.op = "IntegrateInsert"
        => /\ ~last.endless
           /\ last.depth <= Len(last.before)

\* A call with an absent bound went into the recursion and returned.
C30_Witness ==
    /\ last.op = "IntegrateInsert"
    /\ (\/ ~Contains(last.before, last.prev.ID)
        \/ ~Contains(last.before, last.next.ID))
    /\ last.depth >= 1
    /\ ~last.panic
    /\ Len(last.before) > 2

(***************************************************************************)
(* Concurrent writes to one connection (SpecSend): the accept path         *)
(* (handleConn: broadcastOne, broadcastOneExcept), handleMsg               *)
(* (broadcastAllExcept) and handleSync (broadcastOne, broadcastAll) all    *)
(* write through client.send (server/main.go:389-394), which takes the     *)
(* writeMu of the client around Conn.WriteJSON.  A frame goes on the       *)
(* connection in two halves, so a write in the middle of another shows.    *)
(***************************************************************************)

\* A mutex that excludes nobody.
WriteMuFree_Always(holder) == TRUE

\* c.writeMu.Lock() returns only while nobody holds writeMu.
WriteMuFree(holder) == holder = "nobody"

sendFrame == <<clientVars, toServer, toClient, siteID, list, messageChan,
               syncChan, srvPanic, reader, stuck, hist, typed, early, last,
               pair, e>>

\* The halves of frames on all the connections.
Halves == LET RECURSIVE Sum(_)
              Sum(S) == IF S = {} THEN 0
                        ELSE LET c == CHOOSE x \in S : TRUE
                             IN  Len(conn.wire[c]) + Sum(S \ {c})
          IN  Sum(Clients)

\* c.writeMu.Lock(), by goroutine g sending to the client in slot c
SendLock(g, c) ==
    /\ conn.send[g].pc = "idle"
    /\ c \in DOMAIN list
    /\ Halves + 2 * Cardinality({h \in Senders : conn.send[h].pc = "locked"})
          + Cardinality({h \in Senders : conn.send[h].pc = "writing"})
          < 2 * MaxSendFrames
    /\ WriteMuFree(conn.writeMu[c])
    /\ conn' = [conn EXCEPT !.send[g] = [pc |-> "locked", to |-> c],
                            !.writeMu[c] = g]
    /\ UNCHANGED sendFrame

\* c.Conn.WriteJSON(v): the first half of the frame
SendWriteBegin(g) ==
    /\ conn.send[g].pc = "locked"
    /\ conn' = [conn EXCEPT !.send[g].pc = "writing",
                            !.wire[conn.send[g].to] = Append(@, g)]
    /\ UNCHANGED sendFrame

\* c.Conn.WriteJSON(v): the second half of the frame
SendWriteEnd(g) ==
    /\ conn.send[g].pc = "writing"
    /\ conn' = [conn EXCEPT !.send[g].pc = "written",
                            !.wire[conn.send[g].to] = Append(@, g)]
    /\ UNCHANGED sendFrame

\* c.writeMu.Unlock(); send returns
SendUnlock(g) ==
    /\ conn.send[g].pc = "written"
    /\ conn' = [conn EXCEPT !.send[g] = [pc |-> "idle", to |-> 0],
                            !.writeMu[conn.send[g].to] = "nobody"]
    /\ UNCHANGED sendFrame

NextSend ==
    \/ \E g \in Senders, c \in Clients : SendLock(g, c)
    \/ \E g \in Senders : SendWriteBegin(g)
    \/ \E g \in Senders : SendWriteEnd(g)
    \/ \E g \in Senders : SendUnlock(g)

SpecSend == InitEdit /\ [][NextSend]_vars

\* The goroutines inside Conn.WriteJSON on the connection of client c.
Writing(c) ==
    {g \in Senders : conn.send[g].to = c
                       /\ conn.send[g].pc \in {"locked", "writing", "written"}}

\* C31: for every client at most one goroutine is inside the write to its
\* connection, and the two halves of every frame lie next to each other on
\* the connection: no frame is written in the middle of another.
C31_WritesExclusive ==
    \A c \in Clients :
        /\ Cardinality(Writing(c)) <= 1
        /\ \A i \in 1..Len(conn.wire[c]) :
              (i % 2 = 1 /\ i < Len(conn.wire[c]))
                  => conn.wire[c][i + 1] = conn.wire[c][i]

\* A goroutine wrote a frame to a client and another one, holding the
\* writeMu of that client, is in the middle of the next frame.
C31_Witness ==
    \E c \in Clients :
        /\ Len(conn.wire[c]) = 3
        /\ conn.wire[c][1] # conn.wire[c][3]
        /\ conn.writeMu[c] = conn.wire[c][3]
        /\ \E g \in Senders : conn.send[g].pc = "idle" /\ g # conn.writeMu[c]

(***************************************************************************)
(* The text of the editor and the replica                                  *)
(***************************************************************************)

\* handleTermboxEvent or handleMsg of client c runs: a key event or an
\* inbound message is handled.
Handles(c) ==
    \/ ClientHandleMsg(c)
    \/ \E r \in Keys : KeyRune(c, r)
    \/ KeyBackspace(c)
    \/ KeyTab(c)
    \/ \E x \in {0 - 1, 1} : KeyArrow(c, x, 0) \/ KeyArrow(c, 0, x)
    \/ KeyHome(c)
    \/ KeyEnd(c)
    \/ \E named, failed \in BOOLEAN : KeyCtrlS(c, named, failed)
    \/ \E named, failed \in BOOLEAN, newDoc \in LoadedDocs :
          KeyCtrlL(c, named, failed, newDoc)

\* C32: whenever a client has finished handling a key event or an inbound
\* message and goes on running, the text of its editor (the text of its last
\* SetText) is the content of its replica.
C32_TextIsContent ==
    [][\A c \in Clients :
          (Handles(c) /\ proc'[c] = "running")
              => hist.shown'[c] = Content(doc'[c])]_vars

(***************************************************************************)
(* The order of the operations of one client                               *)
(***************************************************************************)

\* a is b with some of its elements left out.
RECURSIVE IsSubsequence(_, _)
IsSubsequence(a, b) ==
    IF a = << >> THEN TRUE
    ELSE IF b = << >> THEN FALSE
    ELSE IF Head(a) = Head(b) THEN IsSubsequence(Tail(a), Tail(b))
    ELSE IsSubsequence(a, Tail(b))

\* C33: the operations of one client reach every other client in the order
\* the client sent them: what a client has handled of the operations of a
\* slot is, in the same order, part of what that slot sent, and a client
\* that was there from the start has handled a prefix of it.
C33_SenderOrder ==
    \A d, c \in Clients :
        /\ IsSubsequence(hist.got[d][c], hist.order[c])
        /\ hist.got[d][d] = << >>

\* A client handled two different operations of another client.
C33_Witness ==
    \E d, c \in Clients :
        /\ c # d
        /\ Len(hist.got[d][c]) >= 2
        /\ hist.got[d][c][1] # hist.got[d][c][2]

(***************************************************************************)
(* The dispatcher of syncChan                                              *)
(***************************************************************************)

\* C34: handleSync never blocks for ever: whenever a message waits on
\* syncChan, syncChan is eventually drained and handleSync is free to take
\* the next message, unless the server process has ended meanwhile.
C34_SyncChanDrains ==
    (syncChan # << >>) ~> ((syncChan = << >> /\ ~StuckSync) \/ srvPanic)

(***************************************************************************)
(* The lock of the client table                                            *)
(***************************************************************************)

\* C35: clients.delete for a client that is no longer in the table changes
\* nothing and leaves no lock held: the read lock of the table is never
\* left behind, and the goroutine that serves the table is never blocked
\* waiting for the lock.
C35_AbsentEvictionReleases == ~stuck.leak /\ ~stuck.table

(***************************************************************************)
(* The join of a client that has left                                      *)
(***************************************************************************)

\* handleMsg dispatches a join whose sender is no longer in the table: the
\* goroutine of the table serves the request of clients.updateName.
LateJoinTaken ==
    /\ Fr(MsgG).pc = "updateName"
    /\ Fr(MsgG).msg.Type = "join"
    /\ Fr(MsgG).msg.ID \notin Ids(list)
    /\ updateName

\* C36: when handleMsg dispatches the join of a client that has already
\* been removed from the table, the update of the user name is ignored: the
\* table is as it was and the server keeps running.
C36_LateJoinIgnored ==
    [][LateJoinTaken => (~srvPanic' /\ list' = list)]_vars

(***************************************************************************)
(* The requests to the goroutine that serves the client table (SpecSnap)   *)
(***************************************************************************)

\* Three clients, whose users all gave the same name, have dialled a server
\* that had none.  handleConn 1 has added its client, written the site ID
\* (the client has read it) and is about to issue the read-all request of
\* its docReq; it has not run since.
\* Meanwhile the second and the third client have joined, so that the table
\* has grown by two clients since handleConn 1 arrived there: client 1 has
\* answered the docReq of the second (its docSync and its own join wait to
\* be read by handleConn 1), client 2 that of the third, and every users
\* list and join has been handled.
InitSnap ==
    LET join == Message("join", JoinText, NilUUID, NameOf(1), NoOperation,
                        NilDocument)
        reply == Message("docSync", IdEmpty, 2, IdEmpty, NoOperation, New)
        sync == Message("docSync", IdEmpty, 3, IdEmpty, NoOperation, New)
        NameIn(c) == IF c = 1 THEN IdEmpty ELSE NameOf(1)
        names == <<44>> \o NameOf(1) \o <<44>> \o NameOf(1) \o <<44>>
    IN  /\ proc = [c \in Clients |-> "running"]
        /\ SiteID = [c \in Clients |-> c]
        /\ toServer = [c \in Clients |->
                          IF c = 1 THEN <<join, reply>> ELSE << >>]
        /\ toClient = [c \in Clients |-> << >>]
        /\ siteID = MaxSnapConns
        /\ list = [c \in Clients |->
                     [id |-> c, SiteID |-> Sprint(c), Username |-> NameIn(c)]]
        /\ messageChan = << >>
        /\ syncChan = << >>
        /\ srvPanic = FALSE
        /\ reader = [c \in Clients |-> TRUE]
        /\ stuck = NoStuck
        /\ conn = [NoConn EXCEPT
                     !.go.g = [g \in Serving |->
                                  IF g = 1
                                    THEN [Parked(g) EXCEPT
                                            !.pc = "getAll", !.job = "docReq",
                                            !.id = 1, !.lag = 2,
                                            !.msg = Message("docReq", IdEmpty,
                                                            1, IdEmpty,
                                                            NoOperation,
                                                            NilDocument)]
                                  ELSE IF g \in Clients
                                    THEN [Parked(g) EXCEPT !.pc = "read",
                                                           !.id = g]
                                  ELSE Parked(g)],
                     !.go.heap = [c \in Clients |->
                                     [slot |-> c, SiteID |-> Sprint(c),
                                      Username |-> NameIn(c)]]]
        /\ doc = [c \in Clients |-> New]
        /\ LocalClock = [c \in Clients |-> 0]
        /\ Cursor = [c \in Clients |-> 0]
        /\ hist = [NoHist EXCEPT
                     !.users = [c \in Clients |-> names],
                     !.answered = {[id |-> 2, doc |-> New]},
                     !.wrote = [NoWrote EXCEPT
                                  !.msg = sync, !.table = {1, 2, 3},
                                  !.targets = {3}, !.written = {3},
                                  !.ids = {3}],
                     !.synced = [NoSynced EXCEPT
                                   !.id = 3, !.who = 3, !.to = 3,
                                   !.installed = New, !.known = TRUE,
                                   !.answered = New],
                     !.boot[2] = [NoBoot EXCEPT !.by = 1],
                     !.boot[3] = [NoBoot EXCEPT !.by = 2, !.done = TRUE]]
        /\ typed = 0
        /\ early = FALSE
        /\ last = NoLast
        /\ pair = NoPair
        /\ e = NoEditor

\* From there the goroutines of the server and the read loops of the
\* clients take their steps in any order.  Nobody else connects, nobody
\* types and nobody leaves.
NextSnap ==
    \/ \E g \in Serving : get(g)
    \/ \E g \in Serving : getAll(g)
    \/ \E g \in Serving : send(g)
    \/ \E g \in Serving : usersGetAll(g)
    \/ \E g \in Serving : sendUsernames(g)
    \/ \E c \in Clients : ServerRead(c)
    \/ \E c \in Clients : chanSend(c)
    \/ HandleMsg
    \/ updateName
    \/ HandleSync
    \/ \E c \in Clients : ClientHandleMsg(c)

SpecSnap == InitSnap /\ [][NextSnap]_vars

\* The goroutine of the table is in the middle of a read-all answer that
\* nobody will take: it has clients left to put in a channel that is full,
\* and the requester has left the range over the channel or waits for the
\* goroutine of the table itself, in clients.delete.
MonWedged == Go.mon.for # 0 /\ Fr(Go.mon.for).pc # "send"

\* C37: a read-all request never leaves the goroutine of the table blocked
\* in the middle of its answer: whenever it cannot send the next client, the
\* requester is receiving from the channel.
C37_SnapshotStreams == ~MonWedged

(***************************************************************************)
(* The snapshot of a joiner and the operations around it                   *)
(***************************************************************************)

\* C38: when a joiner installs the docSync of the peer that answered its
\* docReq, every operation of another client that the joiner has already
\* handled is one the peer had sent or handled when it answered: no
\* operation sent after the snapshot was taken has reached the joiner
\* before the snapshot, to be overwritten by it.
C38_SnapshotCoversEarlier ==
    \A j \in Clients :
        (hist.boot[j].done /\ hist.boot[j].by # 0)
            => \A c \in Clients \ {j} :
                  hist.boot[j].had[c] <= hist.boot[j].covers[c]

(***************************************************************************)
(* The users lists                                                         *)
(***************************************************************************)

\* Nothing is left to do: no frame is in flight, every join is handled,
\* every connection whose peer is gone is closed, handleMsg and handleSync
\* wait for a message, and no goroutine is blocked.
UsersSettled ==
    /\ Quiescent
    /\ ~srvPanic
    /\ ~stuck.table /\ ~stuck.leak
    /\ \A c \in Clients : ~ReadFails(c)

\* C39: once no connect, disconnect or join is left to handle and no message
\* is left to deliver, the last users list written to every client that is
\* connected names the clients in the table and no other.
C39_FinalUsersCurrent ==
    UsersSettled
        => \A d \in DOMAIN list :
              (proc[d] = "running" /\ hist.users[d] # << >>)
                  => \A c \in Clients :
                        Listed(c, hist.users[d]) <=> c \in DOMAIN list

(***************************************************************************)
(* The cursor and the operations of the other clients                      *)
(***************************************************************************)

\* Client c handles an operation sent by another client.
HandlesOperation(c) ==
    /\ proc[c] = "running"
    /\ toClient[c] # << >>
    /\ Head(toClient[c]).Type = "operation"
    /\ toClient' = [toClient EXCEPT ![c] = Tail(@)]
    /\ proc'[c] = "running"

\* C40: handling an insert or a delete of another client never puts the
\* cursor outside the text: a cursor that was between 0 and the length of the
\* text is between 0 and the length of the new text afterwards.
C40_RemoteKeepsCursorInside ==
    [][\A c \in Clients :
          (HandlesOperation(c) /\ Cursor[c] \in 0..Len(Content(doc[c])))
              => Cursor'[c] \in 0..Len(Content(doc'[c]))]_vars

====
